---- MODULE Spec2Model ----
(***************************************************************************)
(* CrabSQL: the MVCC store, the transaction manager, the row lock manager  *)
(* (src/src/store.rs) and the per-session transaction coordinator with the *)
(* INSERT / UPDATE / DELETE / SELECT handlers (src/src/sql.rs).             *)
(*                                                                         *)
(* One database and one table t(id INT PRIMARY KEY, v INT) are modelled;   *)
(* a row is identified with the cell of its column v.                      *)
(***************************************************************************)
EXTENDS Integers, Sequences, FiniteSets, TLC

\* ------------------------------------------------------------------ bounds
\* Largest transaction id the model lets next_tx_id hand out.
MaxTx == 2
\* Largest number of rows in one INSERT statement.
MaxRows == 2
\* Largest number of process restarts (Store::open on existing data).
MaxRestarts == 1
\* Largest number of primary keys handle_insert generates or is given on an
\* AUTO_INCREMENT table in one run.
MaxLog == 3
\* Largest number of savepoints on a session's stack.
MaxSavepoints == 2
\* Largest number of columns ALTER TABLE ADD COLUMN grows the table t to.
MaxCols == 3
\* Largest number of rows of a table a query joins or aggregates.
MaxQueryRows == 2

\* ------------------------------------------------------------ value spaces
\* Connection ids of the sessions.
Conns == {1, 2}
\* Primary keys used by the statements.
PKs == {1, 2}
\* Values of the column v.
Vals == {1, 2}
\* The value the statements of connection c write into v.
ValOf(c) == c

\* Cell::Null and a Cell::Text given for the column v in an INSERT.
NullV == 3
TextV == 4
\* The cells an INSERT of connection c gives for v.
InsertVals(c) == {ValOf(c), NullV, TextV}

\* Option::None of a TransactionId / of an owner conn_id.
NoTx == 0
NoConn == 0
\* Option<Row>::None: a tombstone in the store, "no row" as a read result.
NoneRow == 0
\* "no entry under this key" in a map (sled tree, BTreeMap).
Missing == -1
\* Cell::Null in the primary key column of an inserted row.
NullCell == 0
\* Stand-in for i64::MAX, the largest primary key and auto-increment value.
I64_MAX == 3

\* Stand-in for u64::MAX: above every transaction id that is allocated.
U64_MAX == MaxTx + 2

TxIds == 1..(MaxTx + 1)
InvKeys == 0..U64_MAX
Rows == Vals
OptRow == Rows \cup {NoneRow}

VARIABLES
    next_tx_id,   \* TransactionManager.next_tx_id
    active_txns,  \* TransactionManager.active_txns
    data,         \* sled tree "data", row versions: data[pk][inv_tx]
    max_tx_id,    \* sled key m\0max_tx_id (Missing when absent)
    locks,        \* LockManager state: [by_key, by_owner]
    autocommit,   \* SessionState.autocommit, per conn
    in_txn,       \* SessionState.txn.in_txn, per conn
    tx_id,        \* SessionState.txn.tx_id, per conn (NoTx = None)
    read_view,    \* SessionState.txn.read_view, per conn
    pending_rows, \* SessionState.txn.pending_rows, per conn: [pk -> OptRow or Missing]
    pc,           \* position of each session's thread inside execute()
    alloc,        \* tx id fetched by start_txn and not yet inserted in active_txns
    lastErr,      \* the error the most recent step returned to its client, if any
    restarts,     \* number of restarts so far
    auto_inc,     \* catalog key ai\0db\0t: the next auto-increment value (Missing when absent)
    ai_log,       \* history: the pks handle_insert generated or was given, in order
    savepoints,   \* SessionState.txn.savepoints, per conn: stack of (name, pending_rows)
    tables,       \* catalog: the names of the tables other than t
    tdef,         \* catalog key t\0db\0t: the TableDef of t (NoTableDef when absent)
    index_entries,\* sled tree "data", keys i\0db\0t\0idx_v\0...: the entries (cell, pk)
    arg,          \* the arguments of the query evaluation in progress
    ret           \* its result

vars == <<next_tx_id, active_txns, data, max_tx_id, locks, autocommit, in_txn, tx_id,
          read_view, pending_rows, pc, alloc, lastErr, restarts, auto_inc, ai_log,
          savepoints, tables, tdef, index_entries, arg, ret>>


\* ------------------------------------------------------------- Key codec
\* row_key_mvcc: the version key of (pk, tx) ends in the inverted tx id.
RowKeyMvcc(pk, tx) == <<pk, U64_MAX - tx>>

\* parse_tx_id_from_key
ParseTxIdFromKey(k) == U64_MAX - k[2]

\* ------------------------------------------------------------- Read view
NoView == [visible_up_to |-> 0, active |-> {}, own_tx_id |-> NoTx]

\* The view start_txn builds for transaction id `tx` over the active set `act`.
NewReadView(tx, act) == [visible_up_to |-> tx, active |-> act, own_tx_id |-> tx]

\* The view of the legacy get_row / scan_rows: sees every version.
LegacyView == [visible_up_to |-> U64_MAX, active |-> {}, own_tx_id |-> NoTx]

\* A faulty is_visible: the active set is not consulted.
IsVisible_IgnoreActive(view, tx) ==
    IF view.own_tx_id # NoTx /\ tx = view.own_tx_id THEN TRUE
    ELSE IF tx >= view.visible_up_to THEN FALSE
    ELSE TRUE

\* ReadView::is_visible
IsVisible(view, tx) ==
    IF view.own_tx_id # NoTx /\ tx = view.own_tx_id THEN TRUE
    ELSE IF tx >= view.visible_up_to THEN FALSE
    ELSE IF tx \in view.active THEN FALSE
    ELSE TRUE

\* ------------------------------------------------------------ MVCC reads
RECURSIVE ScanFrom(_, _, _)
\* data.scan_prefix(row_prefix_mvcc(pk)): the keys of pk in byte order, i.e.
\* by ascending inverted tx id, from position inv on.
ScanFrom(d, pk, inv) ==
    IF inv > U64_MAX THEN <<>>
    ELSE (IF d[pk][inv] # Missing THEN << <<pk, inv>> >> ELSE <<>>)
         \o ScanFrom(d, pk, inv + 1)

ScanPrefix(d, pk) == ScanFrom(d, pk, 0)

RECURSIVE FirstVisible(_, _, _, _)
FirstVisible(d, keys, i, view) ==
    IF i > Len(keys) THEN NoneRow
    ELSE IF IsVisible(view, ParseTxIdFromKey(keys[i]))
         THEN d[keys[i][1]][keys[i][2]]
         ELSE FirstVisible(d, keys, i + 1, view)

RECURSIVE LastVisible(_, _, _, _)
LastVisible(d, keys, i, view) ==
    IF i < 1 THEN NoneRow
    ELSE IF IsVisible(view, ParseTxIdFromKey(keys[i]))
         THEN d[keys[i][1]][keys[i][2]]
         ELSE LastVisible(d, keys, i - 1, view)

\* A faulty get_row_mvcc: the scan runs oldest version first.
GetRowMvcc_OldestFirst(d, pk, view) ==
    LastVisible(d, ScanPrefix(d, pk), Len(ScanPrefix(d, pk)), view)

\* Store::get_row_mvcc: the first visible version in scan order.
GetRowMvcc(d, pk, view) == FirstVisible(d, ScanPrefix(d, pk), 1, view)

RECURSIVE ScanTable(_, _)
\* data.scan_prefix(row_prefix(db, table)): every version key of the table,
\* by pk and then by ascending inverted tx id, from pk on.
ScanTable(d, pk) ==
    IF pk \notin PKs THEN <<>>
    ELSE ScanPrefix(d, pk) \o ScanTable(d, pk + 1)

RECURSIVE ScanRowsLoop(_, _, _, _, _, _, _)
\* The loop of scan_rows_mvcc over the keys, with its current_pk / pk_found
\* state; out maps pk -> emitted row (Missing = not emitted).
ScanRowsLoop(d, keys, i, view, current_pk, pk_found, out) ==
    IF i > Len(keys) THEN out
    ELSE LET pk == keys[i][1]
             found0 == IF pk # current_pk THEN FALSE ELSE pk_found
             vis == IsVisible(view, ParseTxIdFromKey(keys[i]))
             val == d[pk][keys[i][2]]
         IN IF found0 THEN ScanRowsLoop(d, keys, i + 1, view, pk, found0, out)
            ELSE IF vis
                 THEN ScanRowsLoop(d, keys, i + 1, view, pk, TRUE,
                                   IF val # NoneRow THEN [out EXCEPT ![pk] = val] ELSE out)
                 ELSE ScanRowsLoop(d, keys, i + 1, view, pk, FALSE, out)

\* Store::scan_rows_mvcc: the (pk, row) pairs, as a map pk -> row or Missing.
ScanRowsMvcc(d, view) ==
    ScanRowsLoop(d, ScanTable(d, 1), 1, view, Missing, FALSE, [pk \in PKs |-> Missing])

\* ---------------------------------------------------------- Lock manager
NoLocks == [by_key |-> [k \in PKs |-> NoConn], by_owner |-> [o \in Conns |-> {}]]

\* A faulty lock: a key held by another owner is treated as already held.
LockManager_lock_NoConflict(st, owner, key) ==
    IF st.by_key[key] = NoConn
    THEN [st |-> [by_key |-> [st.by_key EXCEPT ![key] = owner],
                  by_owner |-> [st.by_owner EXCEPT ![owner] = @ \cup {key}]],
          res |-> "acquired"]
    ELSE [st |-> st, res |-> "reentrant"]

\* A faulty lock: a key held by another owner is granted without removing it
\* from that owner's set.
LockManager_lock_Steal(st, owner, key) ==
    IF st.by_key[key] = owner
    THEN [st |-> st, res |-> "reentrant"]
    ELSE [st |-> [by_key |-> [st.by_key EXCEPT ![key] = owner],
                  by_owner |-> [st.by_owner EXCEPT ![owner] = @ \cup {key}]],
          res |-> "acquired"]

\* LockManager::lock
LockManager_lock(st, owner, key) ==
    IF st.by_key[key] = NoConn
    THEN [st |-> [by_key |-> [st.by_key EXCEPT ![key] = owner],
                  by_owner |-> [st.by_owner EXCEPT ![owner] = @ \cup {key}]],
          res |-> "acquired"]
    ELSE IF st.by_key[key] = owner
    THEN [st |-> st, res |-> "reentrant"]
    ELSE [st |-> st, res |-> "LockWaitTimeout"]

\* A faulty unlock: the key is released whoever holds it.
LockManager_unlock_AnyOwner(st, owner, key) ==
    IF st.by_key[key] = NoConn THEN st
    ELSE [by_key |-> [st.by_key EXCEPT ![key] = NoConn],
          by_owner |-> [st.by_owner EXCEPT ![st.by_key[key]] = @ \ {key}]]

\* LockManager::unlock
LockManager_unlock(st, owner, key) ==
    IF st.by_key[key] # owner THEN st
    ELSE [by_key |-> [st.by_key EXCEPT ![key] = NoConn],
          by_owner |-> [st.by_owner EXCEPT ![owner] = @ \ {key}]]

\* A faulty unlock_all: the owner's key set is cleared but the keys keep their
\* holder.
LockManager_unlock_all_OwnerOnly(st, owner) ==
    [by_key |-> st.by_key,
     by_owner |-> [st.by_owner EXCEPT ![owner] = {}]]

\* LockManager::unlock_all
LockManager_unlock_all(st, owner) ==
    [by_key |-> [k \in PKs |->
                    IF k \in st.by_owner[owner] /\ st.by_key[k] = owner
                    THEN NoConn ELSE st.by_key[k]],
     by_owner |-> [st.by_owner EXCEPT ![owner] = {}]]

\* A faulty guard: a failed statement releases every lock of its session.
UnlockKeys_ReleaseAll(st, owner, acquired) == LockManager_unlock_all(st, owner)

\* A faulty guard that keeps the locks of a failed statement.
UnlockKeys_KeepAll(st, owner, acquired) == st

RECURSIVE UnlockKeys(_, _, _)
\* Drop for RowLockGuard: release the locks this statement newly acquired.
UnlockKeys(st, owner, acquired) ==
    IF acquired = <<>> THEN st
    ELSE UnlockKeys(LockManager_unlock(st, owner, Head(acquired)), owner, Tail(acquired))

\* ------------------------------------------------------ Pending overlay
NoPending == [pk \in PKs |-> Missing]

PendingKeys(p) == {pk \in PKs : p[pk] # Missing}

\* txn_get_row
TxnGetRow(d, p, view, pk) ==
    IF PendingKeys(p) # {} /\ p[pk] # Missing THEN p[pk]
    ELSE GetRowMvcc(d, pk, view)

\* A faulty txn_scan_rows: a pending None leaves the row of the store in.
TxnScanRows_KeepDeleted(d, p, view) ==
    LET base == ScanRowsMvcc(d, view)
    IN IF PendingKeys(p) = {} THEN base
       ELSE [pk \in PKs |->
               IF p[pk] = Missing \/ p[pk] = NoneRow THEN base[pk]
               ELSE p[pk]]

\* txn_scan_rows: map pk -> row or Missing
TxnScanRows(d, p, view) ==
    LET base == ScanRowsMvcc(d, view)
    IN IF PendingKeys(p) = {} THEN base
       ELSE [pk \in PKs |->
               IF p[pk] = Missing THEN base[pk]
               ELSE IF p[pk] = NoneRow THEN Missing
               ELSE p[pk]]

\* should_buffer_writes
ShouldBufferWrites(c) == in_txn[c] \/ ~autocommit[c]

\* ------------------------------------------------------------ MVCC write
\* A faulty batch: only the change of the smallest pk is written.
ApplyVersions_FirstOnly(d, changes, tx) ==
    [pk \in PKs |->
        IF changes[pk] = Missing \/ (\E q \in PKs : q < pk /\ changes[q] # Missing)
        THEN d[pk]
        ELSE [d[pk] EXCEPT ![RowKeyMvcc(pk, tx)[2]] = changes[pk]]]

\* The version writes of the batch of apply_row_changes_mvcc: one new version
\* per change, under the writer's tx id.
ApplyVersions(d, changes, tx) ==
    [pk \in PKs |->
        IF changes[pk] = Missing THEN d[pk]
        ELSE [d[pk] EXCEPT ![RowKeyMvcc(pk, tx)[2]] = changes[pk]]]

\* The max_tx_id key of the same batch.
ApplyMaxTxId(tx) == tx

\* What txn_commit leaves in the data tree: the pending rows go through
\* apply_row_changes_mvcc only when there are any.
CommitData(d, p, tx) ==
    IF tx # NoTx /\ PendingKeys(p) # {} THEN ApplyVersions(d, p, tx) ELSE d

CommitMaxTxId(m, p, tx) ==
    IF tx # NoTx /\ PendingKeys(p) # {} THEN ApplyMaxTxId(tx) ELSE m

\* The TableDef handle_create_table stores for
\* CREATE TABLE t (id INT PRIMARY KEY, v INT), v declared NOT NULL or not (the
\* handlers modelled do not read the flag): two columns, no index.
NewTableDef == [ncols |-> 2, indexes |-> {}]

\* catalog.get(table_key) is None: the table is not in the catalog.
NoTableDef == [ncols |-> 0, indexes |-> {}]

\* ------------------------------------------------------------ Row shape
\* A Row is the vector of its cells (id, v, then the cells ALTER TABLE added).
\* The model writes it as one number: the cell of v plus RowStride for each
\* cell after v.
RowStride == 10

\* row.values.len()
RowCells(row) == 2 + (row \div RowStride)

\* row.values[col_idx] for the column v
CellV(row) == row % RowStride

\* The row of def.ncols cells handle_insert builds around the cell v: the
\* columns the statement does not name are Cell::Null.
NewRow(v, def) == v + RowStride * (def.ncols - 2)

\* row.values.extend(fill_values): one more cell
ExtendRow(row) == row + RowStride

\* ----------------------------------------------------- Secondary index
\* apply_row_changes_mvcc, "Get Old Row": the first item of the prefix scan of
\* pk, that is the version with the highest tx id, or None.
LatestRow(d, pk) ==
    LET ks == ScanPrefix(d, pk)
    IN IF ks = <<>> THEN NoneRow ELSE d[pk][ks[1][2]]

\* The index part of the batch of apply_row_changes_mvcc over the table
\* definition def: for each change and each index, remove the entry of the old
\* row and insert the entry of the new one.
ApplyIndex(ix, d, changes, def) ==
    IF def.indexes = {} THEN ix
    ELSE LET removed == {<<CellV(LatestRow(d, pk)), pk>> :
                            pk \in {q \in PKs : changes[q] # Missing
                                                  /\ LatestRow(d, q) # NoneRow}}
             added == {<<CellV(changes[pk]), pk>> :
                            pk \in {q \in PKs : changes[q] \notin {Missing, NoneRow}}}
         IN (ix \ removed) \cup added

\* A faulty apply_row_changes_mvcc: the definition of the table is not looked
\* up and the batch of a dropped table is applied.
CommitFails_Never(p) == FALSE

\* apply_row_changes_mvcc returns Invalid before its batch is applied when the
\* catalog has no definition of the table of a change.
CommitFails(p) == tdef = NoTableDef /\ PendingKeys(p) # {}

\* What txn_commit leaves of the index entries.
CommitIndex(ix, d, p, tx) ==
    IF tx # NoTx /\ PendingKeys(p) # {} THEN ApplyIndex(ix, d, p, tdef) ELSE ix

\* The error a step returns to its client: res is the MiniError kind and at the
\* position, in the statement's row loop, of the row that failed; NoError when
\* the step returned no error.
NoError == [res |-> "none", at |-> 0]

\* No query is being evaluated.
NoCall == <<>>

\* ------------------------------------------------------------------ Init
\* The store, the transaction manager and the sessions after Store::open on
\* an empty directory and the accept of the connections.
InitBase ==
    /\ next_tx_id = 1
    /\ active_txns = {}
    /\ data = [pk \in PKs |-> [inv \in InvKeys |-> Missing]]
    /\ max_tx_id = Missing
    /\ autocommit = [c \in Conns |-> TRUE]
    /\ in_txn = [c \in Conns |-> FALSE]
    /\ tx_id = [c \in Conns |-> NoTx]
    /\ read_view = [c \in Conns |-> NoView]
    /\ pending_rows = [c \in Conns |-> NoPending]
    /\ pc = [c \in Conns |-> "idle"]
    /\ alloc = [c \in Conns |-> NoTx]
    /\ lastErr = NoError
    /\ restarts = 0
    /\ auto_inc = Missing
    /\ ai_log = <<>>
    /\ savepoints = [c \in Conns |-> <<>>]
    /\ tables = {}
    /\ index_entries = {}

\* The same with the table t just created and no query under evaluation.
Init ==
    /\ InitBase
    /\ locks = NoLocks
    /\ tdef = NewTableDef
    /\ arg = NoCall
    /\ ret = NoCall

\* ------------------------------------------------ end of a statement
\* The tail of execute() (sql.rs 1022-1029) after a handler that left the data
\* tree d1, watermark m1, lock table st1, in_txn flag it1 and pending rows p1,
\* with result res; `committed` tells that the handler itself ran txn_commit.
\* ix1 is the set of index entries the handler left. When the txn_commit of
\* the handler or of the tail fails (pending rows of a table that has been
\* dropped), the statement returns its error and the session stays as it was:
\* a session with pending rows has in_txn set, so the tail does not roll back.
FinishStatementIx(c, d1, ix1, m1, st1, it1, p1, res, committed) ==
    LET fails == (committed \/ (~it1 /\ res = NoError)) /\ CommitFails(p1)
        ends == ~fails /\ (committed \/ ~it1)
        commits == ~fails /\ (committed \/ (~it1 /\ res = NoError))
        tx == tx_id[c]
    IN /\ pc' = [pc EXCEPT ![c] = "idle"]
       /\ lastErr' = IF fails THEN [res |-> "Invalid", at |-> 0] ELSE res
       /\ in_txn' = IF fails THEN in_txn ELSE [in_txn EXCEPT ![c] = it1]
       /\ tx_id' = IF ends THEN [tx_id EXCEPT ![c] = NoTx] ELSE tx_id
       /\ read_view' = IF ends THEN [read_view EXCEPT ![c] = NoView] ELSE read_view
       /\ active_txns' = IF ends THEN active_txns \ {tx} ELSE active_txns
       /\ pending_rows' = [pending_rows EXCEPT ![c] = IF ends THEN NoPending ELSE p1]
       /\ savepoints' = IF ends THEN [savepoints EXCEPT ![c] = <<>>] ELSE savepoints
       /\ locks' = IF ends THEN LockManager_unlock_all(st1, c) ELSE st1
       /\ data' = IF commits THEN CommitData(d1, p1, tx) ELSE d1
       /\ index_entries' = IF commits THEN CommitIndex(ix1, d1, p1, tx) ELSE ix1
       /\ max_tx_id' = IF commits THEN CommitMaxTxId(m1, p1, tx) ELSE m1

\* The same after a handler that wrote no index entry.
FinishStatement(c, d1, m1, st1, it1, p1, res, committed) ==
    FinishStatementIx(c, d1, index_entries, m1, st1, it1, p1, res, committed)

\* A handler can run: execute() is past ensure_txn_active.
Ready(c) ==
    \/ pc[c] = "exec"
    \/ pc[c] = "idle" /\ tx_id[c] # NoTx

\* -------------------------------------------------------------- start_txn
\* TransactionManager::start_txn, first half: next_tx_id.fetch_add(1), reached
\* from ensure_txn_active at the head of a statement other than BEGIN.
StmtFetch(c) ==
    /\ pc[c] = "idle"
    /\ tx_id[c] = NoTx
    /\ next_tx_id <= MaxTx
    /\ alloc' = [alloc EXCEPT ![c] = next_tx_id]
    /\ next_tx_id' = next_tx_id + 1
    /\ pc' = [pc EXCEPT ![c] = "stmt_fetched"]
    /\ lastErr' = NoError
    /\ UNCHANGED <<active_txns, data, index_entries, max_tx_id, locks, autocommit, in_txn, tx_id,
                   read_view, pending_rows, restarts, auto_inc, ai_log, tdef, arg, ret, tables, savepoints>>

\* Statement::StartTransaction up to the fetch_add of start_txn: an open
\* transaction is committed first.
BeginFetch(c) ==
    /\ pc[c] = "idle"
    /\ ~(tx_id[c] # NoTx /\ CommitFails(pending_rows[c]))
    /\ next_tx_id <= MaxTx
    /\ alloc' = [alloc EXCEPT ![c] = next_tx_id]
    /\ next_tx_id' = next_tx_id + 1
    /\ pc' = [pc EXCEPT ![c] = "begin_fetched"]
    /\ IF tx_id[c] # NoTx
       THEN /\ data' = CommitData(data, pending_rows[c], tx_id[c])
            /\ index_entries' = CommitIndex(index_entries, data, pending_rows[c], tx_id[c])
            /\ max_tx_id' = CommitMaxTxId(max_tx_id, pending_rows[c], tx_id[c])
            /\ active_txns' = active_txns \ {tx_id[c]}
            /\ tx_id' = [tx_id EXCEPT ![c] = NoTx]
            /\ read_view' = [read_view EXCEPT ![c] = NoView]
            /\ pending_rows' = [pending_rows EXCEPT ![c] = NoPending]
            /\ savepoints' = [savepoints EXCEPT ![c] = <<>>]
            /\ locks' = LockManager_unlock_all(locks, c)
       ELSE UNCHANGED <<data, index_entries, max_tx_id, active_txns, tx_id, read_view,
                        pending_rows, savepoints, locks>>
    /\ lastErr' = NoError
    /\ UNCHANGED <<autocommit, in_txn, restarts, auto_inc, ai_log, tdef, arg, ret, tables>>

\* TransactionManager::start_txn, second half, under active_txns.write():
\* snapshot the active set, insert the own id; then ensure_txn_active stores
\* the id and the view in the session.
StartTxnInsert(c) ==
    /\ pc[c] \in {"stmt_fetched", "begin_fetched"}
    /\ read_view' = [read_view EXCEPT ![c] = NewReadView(alloc[c], active_txns)]
    /\ active_txns' = active_txns \cup {alloc[c]}
    /\ tx_id' = [tx_id EXCEPT ![c] = alloc[c]]
    /\ alloc' = [alloc EXCEPT ![c] = NoTx]
    /\ IF pc[c] = "begin_fetched"
       THEN /\ in_txn' = [in_txn EXCEPT ![c] = TRUE]
            /\ pc' = [pc EXCEPT ![c] = "idle"]
            /\ lastErr' = NoError
       ELSE /\ pc' = [pc EXCEPT ![c] = "exec"]
            /\ lastErr' = NoError
            /\ UNCHANGED in_txn
    /\ UNCHANGED <<next_tx_id, data, index_entries, max_tx_id, locks, autocommit, pending_rows,
                   restarts, auto_inc, ai_log, tdef, arg, ret, tables, savepoints>>

\* ------------------------------------------------------ COMMIT / ROLLBACK
\* Statement::Commit: txn_commit, then in_txn = false.
Commit(c) ==
    /\ pc[c] = "idle"
    /\ FinishStatement(c, data, max_tx_id, locks, FALSE, pending_rows[c], NoError,
                       TRUE)
    /\ UNCHANGED <<next_tx_id, autocommit, alloc, restarts, auto_inc, ai_log, tdef, arg, ret, tables>>

\* A faulty txn_rollback: pending_rows is not cleared.
Rollback_KeepPending(c) ==
    /\ pc[c] = "idle"
    /\ active_txns' = active_txns \ {tx_id[c]}
    /\ tx_id' = [tx_id EXCEPT ![c] = NoTx]
    /\ read_view' = [read_view EXCEPT ![c] = NoView]
    /\ savepoints' = [savepoints EXCEPT ![c] = <<>>]
    /\ locks' = LockManager_unlock_all(locks, c)
    /\ in_txn' = [in_txn EXCEPT ![c] = FALSE]
    /\ lastErr' = NoError
    /\ UNCHANGED <<next_tx_id, data, index_entries, max_tx_id, autocommit, pc, alloc, restarts, auto_inc,
                   ai_log, tdef, arg, ret, tables, pending_rows>>

\* Statement::Rollback without savepoint: txn_rollback, then in_txn = false.
Rollback(c) ==
    /\ pc[c] = "idle"
    /\ active_txns' = active_txns \ {tx_id[c]}
    /\ tx_id' = [tx_id EXCEPT ![c] = NoTx]
    /\ read_view' = [read_view EXCEPT ![c] = NoView]
    /\ pending_rows' = [pending_rows EXCEPT ![c] = NoPending]
    /\ savepoints' = [savepoints EXCEPT ![c] = <<>>]
    /\ locks' = LockManager_unlock_all(locks, c)
    /\ in_txn' = [in_txn EXCEPT ![c] = FALSE]
    /\ lastErr' = NoError
    /\ UNCHANGED <<next_tx_id, data, index_entries, max_tx_id, autocommit, pc, alloc, restarts, auto_inc, ai_log, tdef, arg, ret, tables>>

\* ------------------------------------------------------------ statements
RECURSIVE SortedSeq(_)
\* target_pks.sort_unstable(); target_pks.dedup()
SortedSeq(S) ==
    IF S = {} THEN <<>>
    ELSE LET m == CHOOSE x \in S : \A y \in S : x <= y
         IN <<m>> \o SortedSeq(S \ {m})

RECURSIVE InsertLoop_MergeEach(_, _, _, _, _, _, _, _)
\* A faulty handle_insert loop: each row goes into the pending buffer as soon
\* as it has passed its checks.
InsertLoop_MergeEach(c, d, p, pks, v, i, acc, st) ==
    IF i > Len(pks)
    THEN [res |-> NoError, stmt_rows |-> acc.stmt_rows, acquired |-> acc.acquired, st |-> st,
          pend |-> p]
    ELSE LET pk == pks[i]
             l == LockManager_lock(st, c, pk)
             acq == IF l.res = "acquired" THEN Append(acc.acquired, pk) ELSE acc.acquired
         IN IF l.res = "LockWaitTimeout"
            THEN [res |-> [res |-> "LockWaitTimeout", at |-> i], stmt_rows |-> acc.stmt_rows,
                  acquired |-> acc.acquired, st |-> l.st, pend |-> p]
            ELSE IF acc.stmt_rows[pk] # Missing
                    \/ TxnGetRow(d, p, read_view[c], pk) # NoneRow
            THEN [res |-> [res |-> "Invalid", at |-> i], stmt_rows |-> acc.stmt_rows, acquired |-> acq,
                  st |-> l.st, pend |-> p]
            ELSE InsertLoop_MergeEach(c, d, [p EXCEPT ![pk] = v], pks, v, i + 1,
                            [stmt_rows |-> acc.stmt_rows, acquired |-> acq], l.st)

RECURSIVE InsertLoop(_, _, _, _, _, _, _, _)
\* The row loop of handle_insert (sql.rs 1807-1875) for VALUES (pks[1], v),
\* (pks[2], v), ...: lock the row, reject a duplicate, collect into stmt_rows.
\* pend is the session's pending buffer, which the loop does not touch.
InsertLoop(c, d, p, pks, v, i, acc, st) ==
    IF i > Len(pks)
    THEN [res |-> NoError, stmt_rows |-> acc.stmt_rows, acquired |-> acc.acquired, st |-> st,
          pend |-> p]
    ELSE LET pk == pks[i]
             l == LockManager_lock(st, c, pk)
             acq == IF l.res = "acquired" THEN Append(acc.acquired, pk) ELSE acc.acquired
         IN IF l.res = "LockWaitTimeout"
            THEN [res |-> [res |-> "LockWaitTimeout", at |-> i], stmt_rows |-> acc.stmt_rows,
                  acquired |-> acc.acquired, st |-> l.st, pend |-> p]
            ELSE IF acc.stmt_rows[pk] # Missing
                    \/ TxnGetRow(d, p, read_view[c], pk) # NoneRow
            THEN [res |-> [res |-> "Invalid", at |-> i], stmt_rows |-> acc.stmt_rows, acquired |-> acq,
                  st |-> l.st, pend |-> p]
            ELSE InsertLoop(c, d, p, pks, v, i + 1,
                            [stmt_rows |-> [acc.stmt_rows EXCEPT ![pk] = v],
                             acquired |-> acq], l.st)

RECURSIVE MutateLoop(_, _, _, _, _, _, _, _)
\* The row loop of handle_update (sql.rs 2006-2019) and of handle_delete
\* (sql.rs 2127-2134): lock each target, skip it when no row is read, else
\* collect the new row (NoneRow for a delete).
MutateLoop(c, d, p, targets, v, i, acc, st) ==
    IF i > Len(targets)
    THEN [res |-> NoError, stmt_rows |-> acc.stmt_rows, acquired |-> acc.acquired, st |-> st]
    ELSE LET pk == targets[i]
             l == LockManager_lock(st, c, pk)
             acq == IF l.res = "acquired" THEN Append(acc.acquired, pk) ELSE acc.acquired
         IN IF l.res = "LockWaitTimeout"
            THEN [res |-> [res |-> "LockWaitTimeout", at |-> i], stmt_rows |-> acc.stmt_rows,
                  acquired |-> acc.acquired, st |-> l.st]
            ELSE IF TxnGetRow(d, p, read_view[c], pk) = NoneRow
            THEN MutateLoop(c, d, p, targets, v, i + 1,
                            [stmt_rows |-> acc.stmt_rows, acquired |-> acq], l.st)
            ELSE MutateLoop(c, d, p, targets, v, i + 1,
                            [stmt_rows |-> [acc.stmt_rows EXCEPT ![pk] = v],
                             acquired |-> acq], l.st)

\* The pending buffer after merging the statement's rows into it.
MergePending(p, stmt_rows) ==
    [pk \in PKs |-> IF stmt_rows[pk] # Missing THEN stmt_rows[pk] ELSE p[pk]]

\* The outcome of a DML handler whose table is not in the catalog.
UnknownTable ==
    [res |-> [res |-> "NotFound", at |-> 0], stmt_rows |-> NoPending, acquired |-> <<>>,
     st |-> locks]

\* The end of a DML handler given the outcome r of its row loop: stage the rows
\* and keep the locks (buffered), or apply them under a system transaction
\* (Store::apply_row_changes) and let the lock guard release; then the tail of
\* execute(). The handler starts with store.get_table, which fails with
\* NotFound, before any row is looked at, when the table has been dropped.
FinishDml(c, r0, p1) ==
    LET r == IF tdef = NoTableDef THEN UnknownTable ELSE r0
        buffer == ShouldBufferWrites(c)
        ok == r.res = NoError
        sys == next_tx_id
        released == UnlockKeys(r.st, c, r.acquired)
    IN /\ (~buffer /\ ok) => next_tx_id <= MaxTx
       /\ next_tx_id' = IF ~buffer /\ ok THEN next_tx_id + 1 ELSE next_tx_id
       /\ FinishStatementIx(c,
            IF ok /\ ~buffer THEN ApplyVersions(data, r.stmt_rows, sys) ELSE data,
            IF ok /\ ~buffer THEN ApplyIndex(index_entries, data, r.stmt_rows, tdef)
                              ELSE index_entries,
            IF ok /\ ~buffer THEN ApplyMaxTxId(sys) ELSE max_tx_id,
            IF ok /\ buffer THEN r.st ELSE released,
            IF ok /\ buffer THEN TRUE ELSE in_txn[c],
            IF ok /\ buffer THEN MergePending(p1, r.stmt_rows) ELSE p1,
            r.res,
            FALSE)
       /\ UNCHANGED <<autocommit, alloc, restarts>>

EmptyAcc == [stmt_rows |-> NoPending, acquired |-> <<>>]

\* The sequences of pks of the rows of one INSERT statement.
InsertPks == UNION {[1..n -> PKs] : n \in 1..MaxRows}

\* handle_insert: INSERT INTO t (id, v) VALUES (pks[1], v), ..., (pks[n], v)
\* for a cell v: coerce_cell passes every cell through to an INT column, and
\* the nullable flag of the column is not looked at.
InsertRows(c, pks, v) ==
    /\ Ready(c)
    /\ FinishDml(c, InsertLoop(c, data, pending_rows[c], pks, NewRow(v, tdef), 1, EmptyAcc,
                               locks),
                 pending_rows[c])
    /\ UNCHANGED <<auto_inc, ai_log, tdef, arg, ret, tables>>

\* INSERT INTO t VALUES (pks[1], v), ..., (pks[n], v) with the session's value v
Insert(c, pks) == InsertRows(c, pks, ValOf(c))

\* handle_update with the WHERE on the primary key: UPDATE t SET v = v WHERE id = pk
UpdateByPk(c, pk) ==
    /\ Ready(c)
    /\ FinishDml(c, MutateLoop(c, data, pending_rows[c], <<pk>>, ValOf(c), 1, EmptyAcc,
                               locks),
                 pending_rows[c])
    /\ UNCHANGED <<auto_inc, ai_log, tdef, arg, ret, tables>>

\* PartialEq for Cell: cells of the same variant holding the same value are
\* equal, Cell::Null equals Cell::Null.
CellEq(a, b) == a = b

\* The pks of the rows txn_scan_rows returns whose cell of v equals the cell w
\* of the WHERE clause (row.values.get(idxw) == Some(&where_val)).
ScanTargets(c, w) ==
    LET rows == TxnScanRows(data, pending_rows[c], read_view[c])
    IN SortedSeq({pk \in PKs : rows[pk] # NoneRow /\ CellEq(CellV(rows[pk]), w)})

\* handle_update with the WHERE on another column: UPDATE t SET v = v WHERE v = w
UpdateByVal(c, w) ==
    /\ Ready(c)
    /\ FinishDml(c, MutateLoop(c, data, pending_rows[c], ScanTargets(c, w), ValOf(c), 1,
                               EmptyAcc, locks),
                 pending_rows[c])
    /\ UNCHANGED <<auto_inc, ai_log, tdef, arg, ret, tables>>

\* handle_delete with the WHERE on the primary key: DELETE FROM t WHERE id = pk
DeleteByPk(c, pk) ==
    /\ Ready(c)
    /\ FinishDml(c, MutateLoop(c, data, pending_rows[c], <<pk>>, NoneRow, 1,
                               EmptyAcc, locks),
                 pending_rows[c])
    /\ UNCHANGED <<auto_inc, ai_log, tdef, arg, ret, tables>>

\* handle_delete with the WHERE on another column: DELETE FROM t WHERE v = w
DeleteByVal(c, w) ==
    /\ Ready(c)
    /\ FinishDml(c, MutateLoop(c, data, pending_rows[c], ScanTargets(c, w), NoneRow, 1,
                               EmptyAcc, locks),
                 pending_rows[c])
    /\ UNCHANGED <<auto_inc, ai_log, tdef, arg, ret, tables>>

\* handle_query: SELECT ... FROM t; reads only.
Select(c) ==
    /\ Ready(c)
    /\ FinishStatement(c, data, max_tx_id, locks, in_txn[c], pending_rows[c],
                       IF tdef = NoTableDef THEN [res |-> "NotFound", at |-> 0] ELSE NoError,
                       FALSE)
    /\ UNCHANGED <<next_tx_id, autocommit, alloc, restarts, auto_inc, ai_log, tdef, arg, ret, tables>>

\* -------------------------------------------------------- AUTO_INCREMENT
\* i64::saturating_add(x, 1)
SaturatingAdd1(x) == IF x >= I64_MAX THEN I64_MAX ELSE x + 1

\* The value under the auto-increment key as the update closures read it.
AutoIncCur(ai) == IF ai = Missing THEN 1 ELSE ai

\* Store::bump_auto_increment_next: the key after the call.
BumpAutoIncrementNext(ai, next) ==
    IF next <= 0 THEN ai
    ELSE IF AutoIncCur(ai) >= next THEN AutoIncCur(ai) ELSE next

\* Store::allocate_auto_increment: the key after the call and the value
\* allocated; checked_add falls back to i64::MAX, the value handed out is
\* stored_next - 1, and a value <= 0 is the "exhausted" error.
AllocateAutoIncrement(ai) ==
    LET stored_next == IF AutoIncCur(ai) < I64_MAX THEN AutoIncCur(ai) + 1 ELSE I64_MAX
        allocated == stored_next - 1
    IN [ai |-> stored_next, ok |-> allocated > 0, allocated |-> allocated]

\* The largest pk txn_scan_rows returns, 0 for an empty table.
MaxPk(rows) ==
    IF \A pk \in PKs : rows[pk] = Missing THEN 0
    ELSE CHOOSE m \in PKs : rows[m] # Missing /\ \A pk \in PKs : rows[pk] # Missing => pk <= m

\* The first generated row of a statement (sql.rs 1829-1842): an absent key is
\* set to one past the largest pk the session reads.
AutoIncInitialize(c, d, p, ai, initialized) ==
    IF initialized \/ ai # Missing THEN ai
    ELSE LET next == SaturatingAdd1(MaxPk(TxnScanRows(d, p, read_view[c])))
         IN BumpAutoIncrementNext(ai, IF next >= 1 THEN next ELSE 1)

RECURSIVE InsertAutoLoop(_, _, _, _, _, _, _, _, _, _)
\* The row loop of handle_insert (sql.rs 1807-1875) on a table whose
\* def.auto_increment is set, for VALUES (cells[1], v), (cells[2], v), ...: a
\* NULL pk cell is replaced by an allocated value, an explicit pk bumps the
\* key; then lock the row, reject a duplicate, collect into stmt_rows.
\* ai is the auto-increment key and log the history of pks so far.
InsertAutoLoop(c, d, p, cells, v, i, acc, st, ai, log) ==
    IF i > Len(cells)
    THEN [res |-> NoError, stmt_rows |-> acc.stmt_rows, acquired |-> acc.acquired,
          st |-> st, pend |-> p, ai |-> ai, log |-> log]
    ELSE LET generated == cells[i] = NullCell
             ai0 == IF generated
                    THEN AutoIncInitialize(c, d, p, ai, acc.auto_inc_initialized)
                    ELSE ai
             a == AllocateAutoIncrement(ai0)
             pk == IF generated THEN a.allocated ELSE cells[i]
             ai1 == IF generated THEN a.ai
                    ELSE BumpAutoIncrementNext(ai, SaturatingAdd1(pk))
             log1 == Append(log, [generated |-> generated, pk |-> pk])
             l == LockManager_lock(st, c, pk)
             acq == IF l.res = "acquired" THEN Append(acc.acquired, pk) ELSE acc.acquired
         IN IF generated /\ ~a.ok
            THEN [res |-> [res |-> "Invalid", at |-> i], stmt_rows |-> acc.stmt_rows,
                  acquired |-> acc.acquired, st |-> st, pend |-> p, ai |-> a.ai,
                  log |-> log]
            ELSE IF l.res = "LockWaitTimeout"
            THEN [res |-> [res |-> "LockWaitTimeout", at |-> i], stmt_rows |-> acc.stmt_rows,
                  acquired |-> acc.acquired, st |-> l.st, pend |-> p, ai |-> ai1,
                  log |-> log1]
            ELSE IF acc.stmt_rows[pk] # Missing
                    \/ TxnGetRow(d, p, read_view[c], pk) # NoneRow
            THEN [res |-> [res |-> "Invalid", at |-> i], stmt_rows |-> acc.stmt_rows,
                  acquired |-> acq, st |-> l.st, pend |-> p, ai |-> ai1, log |-> log1]
            ELSE InsertAutoLoop(c, d, p, cells, v, i + 1,
                                [stmt_rows |-> [acc.stmt_rows EXCEPT ![pk] = v],
                                 acquired |-> acq,
                                 auto_inc_initialized |->
                                     acc.auto_inc_initialized \/ generated],
                                l.st, ai1, log1)

\* The sequences of pk cells of the rows of one INSERT statement on the
\* AUTO_INCREMENT table: NULL or an explicit pk each.
InsertCells == UNION {[1..n -> PKs \cup {NullCell}] : n \in 1..MaxRows}

\* handle_insert on a table created with AUTO_INCREMENT on its primary key:
\* INSERT INTO t VALUES (cells[1], v), ..., (cells[n], v)
InsertAuto(c, cells) ==
    /\ Ready(c)
    /\ Len(ai_log) + Len(cells) <= MaxLog
    /\ LET r == InsertAutoLoop(c, data, pending_rows[c], cells, ValOf(c), 1,
                               [stmt_rows |-> NoPending, acquired |-> <<>>,
                                auto_inc_initialized |-> FALSE],
                               locks, auto_inc, ai_log)
       IN /\ FinishDml(c, r, r.pend)
          /\ auto_inc' = r.ai
          /\ ai_log' = r.log
          /\ UNCHANGED <<tables, tdef, arg, ret>>

\* handle_set for SET autocommit = b: switching it on with a transaction or
\* pending rows open commits them.
SetAutocommit(c, b) ==
    /\ Ready(c)
    /\ autocommit' = [autocommit EXCEPT ![c] = b]
    /\ FinishStatement(c, data, max_tx_id, locks, in_txn[c], pending_rows[c], NoError,
                       b /\ ~autocommit[c]
                         /\ (in_txn[c] \/ PendingKeys(pending_rows[c]) # {}))
    /\ UNCHANGED <<next_tx_id, alloc, restarts, auto_inc, ai_log, tdef, arg, ret, tables>>

\* -------------------------------------------------------------------- DDL
\* The common shape of the DDL handlers (handle_create_table, handle_drop_table,
\* handle_alter_table, handle_create_index, ...): txn_commit first, then the
\* catalog operation with result res, then the tail of execute().
DdlStatement(c, res) ==
    /\ Ready(c)
    /\ FinishStatement(c, data, max_tx_id, locks, in_txn[c], pending_rows[c], res, TRUE)
    /\ UNCHANGED <<next_tx_id, autocommit, alloc, restarts, auto_inc, ai_log, tdef, arg, ret>>

\* handle_create_table: CREATE TABLE u (id INT PRIMARY KEY); Store::create_table
\* refuses a name the catalog already holds.
CreateTable(c) ==
    /\ DdlStatement(c, IF "u" \in tables THEN [res |-> "Invalid", at |-> 0] ELSE NoError)
    /\ tables' = tables \cup {"u"}

\* handle_drop_table: DROP TABLE u; Store::drop_table refuses an unknown name.
DropTable(c) ==
    /\ DdlStatement(c, IF "u" \notin tables THEN [res |-> "NotFound", at |-> 0] ELSE NoError)
    /\ tables' = tables \ {"u"}

\* ------------------------------------------------------- DDL on table t
\* The txn_commit at the head of a DDL handler: what it leaves in the store.
HandlerCommit(c) ==
    [d |-> CommitData(data, pending_rows[c], tx_id[c]),
     ix |-> CommitIndex(index_entries, data, pending_rows[c], tx_id[c]),
     m |-> CommitMaxTxId(max_tx_id, pending_rows[c], tx_id[c])]

\* A DDL handler on t after its txn_commit: the catalog and store operation
\* returned res and left the definition def1, the rows d1 and the index entries
\* ix1; then the tail of execute(). When the txn_commit fails the handler
\* returns before its operation.
TableDdl(c, res, def1, d1, ix1, m1) ==
    /\ Ready(c)
    /\ IF CommitFails(pending_rows[c])
       THEN /\ FinishStatementIx(c, data, index_entries, max_tx_id, locks, in_txn[c],
                                 pending_rows[c], NoError, TRUE)
            /\ tdef' = tdef
       ELSE /\ FinishStatementIx(c, d1, ix1, m1, locks, in_txn[c], NoPending, res, TRUE)
            /\ tdef' = def1
    /\ UNCHANGED <<autocommit, alloc, restarts, ai_log, arg, ret, tables>>

\* The backfill of Store::create_index: one entry for every pk whose version
\* with the highest tx id is a row.
Backfill(d) ==
    {<<CellV(LatestRow(d, pk)), pk>> : pk \in {q \in PKs : LatestRow(d, q) # NoneRow}}

\* handle_create_index and Store::create_index: CREATE INDEX idx_v ON t (v)
CreateIndex(c) ==
    LET h == HandlerCommit(c)
        res == IF tdef = NoTableDef THEN [res |-> "NotFound", at |-> 0]
               ELSE IF "idx_v" \in tdef.indexes THEN [res |-> "Invalid", at |-> 0]
               ELSE NoError
    IN /\ TableDdl(c, res,
                   IF res = NoError THEN [tdef EXCEPT !.indexes = @ \cup {"idx_v"}] ELSE tdef,
                   h.d,
                   IF res = NoError THEN h.ix \cup Backfill(h.d) ELSE h.ix,
                   h.m)
       /\ UNCHANGED <<next_tx_id, auto_inc>>

\* The data tree without any row version of t.
NoRows == [pk \in PKs |-> [inv \in InvKeys |-> Missing]]

\* handle_drop_table and Store::drop_table: DROP TABLE t removes the catalog
\* key of the definition, the auto-increment key and every key of the data
\* tree under the row prefix r\0db\0t\0; the index entries are under the
\* prefix i\0db\0t\0 and are not looked at.
DropTableT(c) ==
    LET h == HandlerCommit(c)
        found == tdef # NoTableDef
        res == IF found THEN NoError ELSE [res |-> "NotFound", at |-> 0]
    IN /\ TableDdl(c, res, NoTableDef, IF found THEN NoRows ELSE h.d, h.ix, h.m)
       /\ auto_inc' = IF found /\ ~CommitFails(pending_rows[c]) THEN Missing ELSE auto_inc
       /\ UNCHANGED next_tx_id

\* handle_create_table and Store::create_table:
\* CREATE TABLE t (id INT PRIMARY KEY, v INT)
CreateTableT(c) ==
    LET h == HandlerCommit(c)
        res == IF tdef # NoTableDef THEN [res |-> "Invalid", at |-> 0] ELSE NoError
    IN /\ TableDdl(c, res, IF res = NoError THEN NewTableDef ELSE tdef, h.d, h.ix, h.m)
       /\ UNCHANGED <<next_tx_id, auto_inc>>

\* handle_alter_table: ALTER TABLE t ADD COLUMN w INT. After the txn_commit,
\* every row Store::scan_rows returns (legacy view) is extended by the fill
\* value and written back by Store::apply_row_changes under a system
\* transaction of its own, then the definition with the new column is stored.
AlterTable(c) ==
    LET h == HandlerCommit(c)
        found == tdef # NoTableDef
        acts == found /\ ~CommitFails(pending_rows[c])
        scanned == ScanRowsMvcc(h.d, LegacyView)
        changes == [pk \in PKs |-> IF scanned[pk] = Missing THEN Missing
                                    ELSE ExtendRow(scanned[pk])]
        tx == next_tx_id
    IN /\ acts => (tx \in TxIds /\ tdef.ncols < MaxCols)
       /\ TableDdl(c, IF found THEN NoError ELSE [res |-> "NotFound", at |-> 0],
                   IF found THEN [tdef EXCEPT !.ncols = @ + 1] ELSE tdef,
                   IF found THEN ApplyVersions(h.d, changes, tx) ELSE h.d,
                   IF found THEN ApplyIndex(h.ix, h.d, changes, tdef) ELSE h.ix,
                   IF found THEN ApplyMaxTxId(tx) ELSE h.m)
       /\ next_tx_id' = IF acts THEN next_tx_id + 1 ELSE next_tx_id
       /\ UNCHANGED auto_inc

\* ------------------------------------------------------------- savepoints
\* Savepoint names, each standing for its ASCII-case-folded form (the handlers
\* compare with eq_ignore_ascii_case).
SpNames == {"s1", "s2"}

RECURSIVE RPosition(_, _, _)
\* savepoints.iter().rposition(|(n, _)| n == name), searching from index i
\* down; 0 for None.
RPosition(stack, name, i) ==
    IF i < 1 THEN 0
    ELSE IF stack[i].name = name THEN i
    ELSE RPosition(stack, name, i - 1)

\* Vec::truncate(len)
Truncate(stack, len) == IF len >= Len(stack) THEN stack ELSE SubSeq(stack, 1, len)

\* A savepoint handler returns the error res and changes nothing.
SavepointError(res) ==
    /\ lastErr' = [res |-> res, at |-> 0]
    /\ UNCHANGED <<next_tx_id, active_txns, data, index_entries, max_tx_id, locks, autocommit, in_txn,
                   tx_id, read_view, pending_rows, pc, alloc, restarts, auto_inc, ai_log, tdef, arg, ret, tables,
                   savepoints>>

\* handle_savepoint: SAVEPOINT name
Savepoint(c, name) ==
    /\ pc[c] = "idle"
    /\ IF ~in_txn[c] THEN SavepointError("Invalid")
       ELSE /\ Len(savepoints[c]) < MaxSavepoints
            /\ savepoints' = [savepoints EXCEPT ![c] =
                                 Append(@, [name |-> name, pending |-> pending_rows[c]])]
            /\ lastErr' = NoError
            /\ UNCHANGED <<next_tx_id, active_txns, data, index_entries, max_tx_id, locks, autocommit,
                           in_txn, tx_id, read_view, pending_rows, pc, alloc, restarts,
                           auto_inc, ai_log, tdef, arg, ret, tables>>

\* A faulty handle_rollback_to_savepoint: the locks of the rows that leave the
\* pending buffer are released.
RollbackToSavepoint_Unlock(c, name) ==
    /\ pc[c] = "idle"
    /\ LET stack == savepoints[c]
           pos == RPosition(stack, name, Len(stack))
       IN IF ~in_txn[c] THEN SavepointError("Invalid")
          ELSE IF pos = 0 THEN SavepointError("NotFound")
          ELSE /\ pending_rows' = [pending_rows EXCEPT ![c] = stack[pos].pending]
               /\ savepoints' = [savepoints EXCEPT ![c] = Truncate(stack, pos)]
               /\ locks' = UnlockKeys(locks, c,
                                      SortedSeq(PendingKeys(pending_rows[c])
                                                  \ PendingKeys(stack[pos].pending)))
               /\ lastErr' = NoError
               /\ UNCHANGED <<next_tx_id, active_txns, data, index_entries, max_tx_id, autocommit,
                              in_txn, tx_id, read_view, pc, alloc, restarts, auto_inc,
                              ai_log, tdef, arg, ret, tables>>

\* A faulty handle_rollback_to_savepoint: the first savepoint of that name is
\* taken (position instead of rposition).
RollbackToSavepoint_First(c, name) ==
    /\ pc[c] = "idle"
    /\ LET stack == savepoints[c]
           pos == IF \E i \in DOMAIN stack : stack[i].name = name
                  THEN CHOOSE i \in DOMAIN stack :
                           /\ stack[i].name = name
                           /\ \A j \in DOMAIN stack : stack[j].name = name => i <= j
                  ELSE 0
       IN IF ~in_txn[c] THEN SavepointError("Invalid")
          ELSE IF pos = 0 THEN SavepointError("NotFound")
          ELSE /\ pending_rows' = [pending_rows EXCEPT ![c] = stack[pos].pending]
               /\ savepoints' = [savepoints EXCEPT ![c] = Truncate(stack, pos)]
               /\ lastErr' = NoError
               /\ UNCHANGED <<next_tx_id, active_txns, data, index_entries, max_tx_id, locks, autocommit,
                              in_txn, tx_id, read_view, pc, alloc, restarts, auto_inc,
                              ai_log, tdef, arg, ret, tables>>

\* handle_rollback_to_savepoint: ROLLBACK TO SAVEPOINT name
RollbackToSavepoint(c, name) ==
    /\ pc[c] = "idle"
    /\ LET stack == savepoints[c]
           pos == RPosition(stack, name, Len(stack))
       IN IF ~in_txn[c] THEN SavepointError("Invalid")
          ELSE IF pos = 0 THEN SavepointError("NotFound")
          ELSE /\ pending_rows' = [pending_rows EXCEPT ![c] = stack[pos].pending]
               /\ savepoints' = [savepoints EXCEPT ![c] = Truncate(stack, pos)]
               /\ lastErr' = NoError
               /\ UNCHANGED <<next_tx_id, active_txns, data, index_entries, max_tx_id, locks, autocommit,
                              in_txn, tx_id, read_view, pc, alloc, restarts, auto_inc,
                              ai_log, tdef, arg, ret, tables>>

\* A faulty handle_release_savepoint: the named savepoint itself is kept
\* (truncate(pos + 1)).
ReleaseSavepoint_KeepNamed(c, name) ==
    /\ pc[c] = "idle"
    /\ LET stack == savepoints[c]
           pos == RPosition(stack, name, Len(stack))
       IN IF ~in_txn[c] THEN SavepointError("Invalid")
          ELSE IF pos = 0 THEN SavepointError("NotFound")
          ELSE /\ savepoints' = [savepoints EXCEPT ![c] = Truncate(stack, pos)]
               /\ lastErr' = NoError
               /\ UNCHANGED <<next_tx_id, active_txns, data, index_entries, max_tx_id, locks, autocommit,
                              in_txn, tx_id, read_view, pending_rows, pc, alloc, restarts,
                              auto_inc, ai_log, tdef, arg, ret, tables>>

\* handle_release_savepoint: RELEASE SAVEPOINT name
ReleaseSavepoint(c, name) ==
    /\ pc[c] = "idle"
    /\ LET stack == savepoints[c]
           pos == RPosition(stack, name, Len(stack))
       IN IF ~in_txn[c] THEN SavepointError("Invalid")
          ELSE IF pos = 0 THEN SavepointError("NotFound")
          ELSE /\ savepoints' = [savepoints EXCEPT ![c] = Truncate(stack, pos - 1)]
               /\ lastErr' = NoError
               /\ UNCHANGED <<next_tx_id, active_txns, data, index_entries, max_tx_id, locks, autocommit,
                              in_txn, tx_id, read_view, pending_rows, pc, alloc, restarts,
                              auto_inc, ai_log, tdef, arg, ret, tables>>

\* ------------------------------------------------------- connection drop
\* A faulty Drop for Backend: the row locks are not released.
Disconnect_KeepLocks(c) ==
    /\ pc[c] = "idle"
    /\ autocommit' = [autocommit EXCEPT ![c] = TRUE]
    /\ in_txn' = [in_txn EXCEPT ![c] = FALSE]
    /\ tx_id' = [tx_id EXCEPT ![c] = NoTx]
    /\ read_view' = [read_view EXCEPT ![c] = NoView]
    /\ pending_rows' = [pending_rows EXCEPT ![c] = NoPending]
    /\ savepoints' = [savepoints EXCEPT ![c] = <<>>]
    /\ lastErr' = NoError
    /\ UNCHANGED <<next_tx_id, active_txns, data, index_entries, max_tx_id, pc, alloc, restarts, auto_inc,
                   ai_log, tdef, arg, ret, tables, locks>>

\* The connection of conn c ends between two statements: Drop for Backend runs
\* unlock_all(conn_id) and the SessionState is dropped with the Backend; the
\* transaction manager is not told, so an open tx id stays in active_txns. The
\* slot is taken by the SessionState::new of the next connection.
Disconnect(c) ==
    /\ pc[c] = "idle"
    /\ locks' = LockManager_unlock_all(locks, c)
    /\ autocommit' = [autocommit EXCEPT ![c] = TRUE]
    /\ in_txn' = [in_txn EXCEPT ![c] = FALSE]
    /\ tx_id' = [tx_id EXCEPT ![c] = NoTx]
    /\ read_view' = [read_view EXCEPT ![c] = NoView]
    /\ pending_rows' = [pending_rows EXCEPT ![c] = NoPending]
    /\ savepoints' = [savepoints EXCEPT ![c] = <<>>]
    /\ lastErr' = NoError
    /\ UNCHANGED <<next_tx_id, active_txns, data, index_entries, max_tx_id, pc, alloc, restarts, auto_inc,
                   ai_log, tdef, arg, ret, tables>>

\* ---------------------------------------------------------------- restart
\* The process stops (every session and the in-memory managers are lost) and
\* Store::open runs on the data that was flushed.
StoreOpenNextId(m) == IF m = Missing THEN 1 ELSE m + 1

Restart ==
    /\ restarts < MaxRestarts
    /\ restarts' = restarts + 1
    /\ next_tx_id' = StoreOpenNextId(max_tx_id)
    /\ active_txns' = {}
    /\ locks' = NoLocks
    /\ autocommit' = [c \in Conns |-> TRUE]
    /\ in_txn' = [c \in Conns |-> FALSE]
    /\ tx_id' = [c \in Conns |-> NoTx]
    /\ read_view' = [c \in Conns |-> NoView]
    /\ pending_rows' = [c \in Conns |-> NoPending]
    /\ savepoints' = [c \in Conns |-> <<>>]
    /\ pc' = [c \in Conns |-> "idle"]
    /\ alloc' = [c \in Conns |-> NoTx]
    /\ lastErr' = NoError
    /\ UNCHANGED <<data, index_entries, max_tx_id, auto_inc, ai_log, tdef, arg, ret, tables>>

\* ------------------------------------------------------------------- Next
Next ==
    \/ \E c \in Conns : StmtFetch(c)
    \/ \E c \in Conns : BeginFetch(c)
    \/ \E c \in Conns : StartTxnInsert(c)
    \/ \E c \in Conns : Commit(c)
    \/ \E c \in Conns : Rollback(c)
    \/ \E c \in Conns : \E pks \in InsertPks : Insert(c, pks)
    \/ \E c \in Conns : \E pk \in PKs : UpdateByPk(c, pk)
    \/ \E c \in Conns : \E w \in Vals : UpdateByVal(c, w)
    \/ \E c \in Conns : \E pk \in PKs : DeleteByPk(c, pk)
    \/ \E c \in Conns : \E w \in Vals : DeleteByVal(c, w)
    \/ \E c \in Conns : Select(c)

\* Sessions that keep autocommit = 1 and use BEGIN ... COMMIT / ROLLBACK.
Spec == Init /\ [][Next]_vars

\* The same with process restarts.
NextRestart == Next \/ Restart

SpecRestart == Init /\ [][NextRestart]_vars

\* The same with sessions that switch autocommit.
NextAutocommit == Next \/ \E c \in Conns : \E b \in BOOLEAN : SetAutocommit(c, b)

SpecAutocommit == Init /\ [][NextAutocommit]_vars

\* The table is created with AUTO_INCREMENT on its primary key; sessions
\* insert generated and explicit pks and delete rows, in transactions or not.
NextAutoInc ==
    \/ \E c \in Conns : StmtFetch(c)
    \/ \E c \in Conns : BeginFetch(c)
    \/ \E c \in Conns : StartTxnInsert(c)
    \/ \E c \in Conns : Commit(c)
    \/ \E c \in Conns : Rollback(c)
    \/ \E c \in Conns : \E cells \in InsertCells : InsertAuto(c, cells)
    \/ \E c \in Conns : \E pk \in PKs : DeleteByPk(c, pk)

SpecAutoInc == Init /\ [][NextAutoInc]_vars

\* Sessions that insert rows in transactions and use savepoints.
NextSavepoint ==
    \/ \E c \in Conns : StmtFetch(c)
    \/ \E c \in Conns : BeginFetch(c)
    \/ \E c \in Conns : StartTxnInsert(c)
    \/ \E c \in Conns : Commit(c)
    \/ \E c \in Conns : Rollback(c)
    \/ \E c \in Conns : \E pks \in InsertPks : Insert(c, pks)
    \/ \E c \in Conns : \E n \in SpNames : Savepoint(c, n)
    \/ \E c \in Conns : \E n \in SpNames : RollbackToSavepoint(c, n)
    \/ \E c \in Conns : \E n \in SpNames : ReleaseSavepoint(c, n)

SpecSavepoint == Init /\ [][NextSavepoint]_vars

\* Sessions that buffer their writes, by BEGIN or by autocommit off, set
\* savepoints and insert rows, some of the inserts failing.
NextBuffered ==
    \/ \E c \in Conns : StmtFetch(c)
    \/ \E c \in Conns : BeginFetch(c)
    \/ \E c \in Conns : StartTxnInsert(c)
    \/ \E c \in Conns : Commit(c)
    \/ \E c \in Conns : Rollback(c)
    \/ \E c \in Conns : \E pks \in InsertPks : Insert(c, pks)
    \/ \E c \in Conns : \E n \in SpNames : Savepoint(c, n)
    \/ \E c \in Conns : \E b \in BOOLEAN : SetAutocommit(c, b)

SpecBuffered == Init /\ [][NextBuffered]_vars

\* Sessions that also create and drop a second table.
NextDdl ==
    \/ Next
    \/ \E c \in Conns : CreateTable(c)
    \/ \E c \in Conns : DropTable(c)

SpecDdl == Init /\ [][NextDdl]_vars

\* Sessions whose connections may end at any time between two statements.
NextDrop ==
    \/ Next
    \/ \E c \in Conns : Disconnect(c)

SpecDrop == Init /\ [][NextDrop]_vars

\* Sessions that insert, update and delete rows and create the index idx_v.
NextIndex ==
    \/ \E c \in Conns : StmtFetch(c)
    \/ \E c \in Conns : BeginFetch(c)
    \/ \E c \in Conns : StartTxnInsert(c)
    \/ \E c \in Conns : Commit(c)
    \/ \E c \in Conns : Rollback(c)
    \/ \E c \in Conns : \E pks \in InsertPks : Insert(c, pks)
    \/ \E c \in Conns : \E pk \in PKs : UpdateByPk(c, pk)
    \/ \E c \in Conns : \E pk \in PKs : DeleteByPk(c, pk)
    \/ \E c \in Conns : CreateIndex(c)

SpecIndex == Init /\ [][NextIndex]_vars

\* Sessions whose INSERTs give an INT, NULL or a string for the column v,
\* declared INT NOT NULL.
NextConstraint ==
    \/ \E c \in Conns : StmtFetch(c)
    \/ \E c \in Conns : BeginFetch(c)
    \/ \E c \in Conns : StartTxnInsert(c)
    \/ \E c \in Conns : Commit(c)
    \/ \E c \in Conns : Rollback(c)
    \/ \E c \in Conns : \E pks \in InsertPks : \E v \in InsertVals(c) : InsertRows(c, pks, v)

SpecConstraint == Init /\ [][NextConstraint]_vars

\* The cells a WHERE v = ... clause compares with: an INT or NULL.
WhereVals == Vals \cup {NullV}

\* Sessions that insert rows with an INT or NULL in v and update and delete by
\* WHERE v = w, w an INT or NULL.
NextNull ==
    \/ \E c \in Conns : StmtFetch(c)
    \/ \E c \in Conns : BeginFetch(c)
    \/ \E c \in Conns : StartTxnInsert(c)
    \/ \E c \in Conns : Commit(c)
    \/ \E c \in Conns : Rollback(c)
    \/ \E c \in Conns : \E pks \in InsertPks : \E v \in {ValOf(c), NullV} : InsertRows(c, pks, v)
    \/ \E c \in Conns : \E w \in WhereVals : UpdateByVal(c, w)
    \/ \E c \in Conns : \E w \in WhereVals : DeleteByVal(c, w)

SpecNull == Init /\ [][NextNull]_vars

\* Sessions that insert rows, create the index idx_v, drop the table t and
\* create it again.
NextDropTable ==
    \/ \E c \in Conns : StmtFetch(c)
    \/ \E c \in Conns : BeginFetch(c)
    \/ \E c \in Conns : StartTxnInsert(c)
    \/ \E c \in Conns : Commit(c)
    \/ \E c \in Conns : Rollback(c)
    \/ \E c \in Conns : \E pks \in InsertPks : Insert(c, pks)
    \/ \E c \in Conns : CreateIndex(c)
    \/ \E c \in Conns : DropTableT(c)
    \/ \E c \in Conns : CreateTableT(c)

SpecDropTable == Init /\ [][NextDropTable]_vars

\* Sessions that insert and read while the table is altered.
NextAlter ==
    \E c \in Conns :
        \/ StmtFetch(c)
        \/ BeginFetch(c)
        \/ StartTxnInsert(c)
        \/ Commit(c)
        \/ Rollback(c)
        \/ Select(c)
        \/ \E pks \in InsertPks : Insert(c, pks)
        \/ AlterTable(c)

SpecAlter == Init /\ [][NextAlter]_vars

\* ------------------------------------------------------ Lock manager calls
\* What a call of the lock manager leaves alone.
lockFrame == <<next_tx_id, active_txns, data, max_tx_id, autocommit, in_txn, tx_id,
               read_view, pending_rows, pc, alloc, lastErr, restarts, auto_inc, ai_log,
               savepoints, tables, tdef, index_entries, arg>>

\* The lock tables LockManager keeps: every key is free or held by one
\* connection, and by_owner holds for each connection the keys it holds.
LockTables ==
    {[by_key |-> bk, by_owner |-> [o \in Conns |-> {k \in PKs : bk[k] = o}]] :
        bk \in [PKs -> Conns \cup {NoConn}]}

\* A connection is about to call the lock manager on a key.
InitLock ==
    /\ InitBase
    /\ tdef = NewTableDef
    /\ arg \in {<<[owner |-> o, key |-> k]>> : o \in Conns, k \in PKs}
    /\ ret = NoCall
    /\ locks \in LockTables

\* Store::lock_row: LockManager::lock(owner, key) on the lock table as it is.
LockCall ==
    LET r == LockManager_lock(locks, arg[1].owner, arg[1].key)
    IN /\ locks' = r.st
       /\ ret' = <<[op |-> "lock", before |-> locks, res |-> r.res]>>
       /\ UNCHANGED lockFrame

\* Store::unlock_row: LockManager::unlock(owner, key)
UnlockCall ==
    /\ locks' = LockManager_unlock(locks, arg[1].owner, arg[1].key)
    /\ ret' = <<[op |-> "unlock", before |-> locks, res |-> "unit"]>>
    /\ UNCHANGED lockFrame

NextLock == LockCall \/ UnlockCall

SpecLock == InitLock /\ [][NextLock]_vars

\* Transactions with savepoints whose table is dropped under them.
NextCommitFail ==
    \E c \in Conns :
        \/ StmtFetch(c)
        \/ BeginFetch(c)
        \/ StartTxnInsert(c)
        \/ Commit(c)
        \/ Rollback(c)
        \/ \E pks \in InsertPks : Insert(c, pks)
        \/ Savepoint(c, "s1")
        \/ DropTableT(c)
        \/ CreateTableT(c)

SpecCommitFail == Init /\ [][NextCommitFail]_vars

\* ------------------------------------------------------------ SHOW COLUMNS
\* Statement::ShowColumns | Statement::ShowCreate in execute(): after
\* ensure_txn_active the handler reads the definition from the catalog and
\* its result is returned as it is; this arm has no implicit commit or
\* rollback after the handler.
ShowColumns(c) ==
    /\ Ready(c)
    /\ pc' = [pc EXCEPT ![c] = "idle"]
    /\ lastErr' = IF tdef = NoTableDef THEN [res |-> "NotFound", at |-> 0] ELSE NoError
    /\ UNCHANGED <<next_tx_id, active_txns, data, index_entries, max_tx_id, locks, autocommit,
                   in_txn, tx_id, read_view, pending_rows, alloc, restarts, auto_inc, ai_log,
                   tdef, arg, ret, tables, savepoints>>

\* Sessions that also look at the columns of t.
NextShow == Next \/ \E c \in Conns : ShowColumns(c)

SpecShow == Init /\ [][NextShow]_vars

\* ------------------------------------------------------------------ Joins
\* The variables of the store and of the sessions, which the evaluation of a
\* query over rows already read leaves alone.
storeVars == <<next_tx_id, active_txns, data, max_tx_id, locks, autocommit, in_txn, tx_id,
               read_view, pending_rows, pc, alloc, lastErr, restarts, auto_inc, ai_log,
               savepoints, tables, tdef, index_entries>>

\* The cells of the column k of the joined and aggregated tables: NULL or an INT.
QueryCells == {NullCell, 1, 2}

\* The row sets of a table (id INT PRIMARY KEY, k INT): the row at position i
\* has id i.
QueryTables ==
    UNION {{[i \in 1..n |-> <<i, ks[i]>>] : ks \in [1..n -> QueryCells]} : n \in 0..MaxQueryRows}

\* compare_cell_for_order on two Cell::Int or Cell::Null: Less, Equal, Greater
\* as -1, 0, 1; Null sorts first.
CompareCellForOrder(a, b) ==
    IF a = b THEN 0 ELSE IF a < b THEN -1 ELSE 1

\* A faulty eval_equi_join_pairs: two Null keys match.
EvalEquiJoinPairs_NullMatches(left, right, pairs) ==
    \A pr \in pairs : CompareCellForOrder(left[pr[1]], right[pr[2]]) = 0

\* eval_equi_join_pairs
EvalEquiJoinPairs(left, right, pairs) ==
    \A pr \in pairs :
        /\ left[pr[1]] # NullCell
        /\ right[pr[2]] # NullCell
        /\ CompareCellForOrder(left[pr[1]], right[pr[2]]) = 0

\* eval_tri on a comparison l op r: Unknown when a side is Null.
EvalTri(op, l, r) ==
    IF l = NullCell \/ r = NullCell THEN "Unknown"
    ELSE LET cmp == CompareCellForOrder(l, r)
             ok == CASE op = "=" -> cmp = 0
                    [] op = "<>" -> cmp # 0
                    [] op = "<" -> cmp = -1
                    [] op = ">" -> cmp = 1
                    [] op = "<=" -> cmp # 1
                    [] op = ">=" -> cmp # -1
         IN IF ok THEN "True" ELSE "False"

\* eval_condition: the row is kept iff the predicate is True.
EvalCondition(op, l, r) == EvalTri(op, l, r) = "True"

\* The ON clauses of the joins: l.k = r.k, which extract_equi_join_pairs turns
\* into the pair of the two k columns, and l.k < r.k, which goes through
\* eval_condition on the combined row.
OnClauses == {"=", "<"}

\* The test of one (left, right) pair in the join loops of handle_query.
OnMatches(on, left, right) ==
    IF on = "=" THEN EvalEquiJoinPairs(left, right, {<<2, 2>>})
    ELSE EvalCondition(on, (left \o right)[2], (left \o right)[4])

\* vec![Cell::Null; n]
NullRow(n) == [i \in 1..n |-> NullCell]

RECURSIVE JoinScanRight(_, _, _, _)
\* The inner loop of JoinKind::Inner | JoinKind::Left: the combined rows of
\* `left` with the rows j.. of j_rows that match, in the order of j_rows.
JoinScanRight(on, left, j_rows, j) ==
    IF j > Len(j_rows) THEN <<>>
    ELSE (IF OnMatches(on, left, j_rows[j]) THEN <<left \o j_rows[j]>> ELSE <<>>)
         \o JoinScanRight(on, left, j_rows, j + 1)

RECURSIVE JoinScanLeft(_, _, _, _)
\* The inner loop of JoinKind::Right.
JoinScanLeft(on, left_rows, right, i) ==
    IF i > Len(left_rows) THEN <<>>
    ELSE (IF OnMatches(on, left_rows[i], right) THEN <<left_rows[i] \o right>> ELSE <<>>)
         \o JoinScanLeft(on, left_rows, right, i + 1)

RECURSIVE JoinLeftLoop_DropUnmatched(_, _, _, _, _)
\* A faulty outer loop: LEFT JOIN emits nothing for an unmatched left row.
JoinLeftLoop_DropUnmatched(kind, on, left_rows, j_rows, i) ==
    IF i > Len(left_rows) THEN <<>>
    ELSE JoinScanRight(on, left_rows[i], j_rows, 1)
         \o JoinLeftLoop_DropUnmatched(kind, on, left_rows, j_rows, i + 1)

RECURSIVE JoinLeftLoop(_, _, _, _, _)
\* The outer loop of JoinKind::Inner | JoinKind::Left (sql.rs 2447-2478).
JoinLeftLoop(kind, on, left_rows, j_rows, i) ==
    IF i > Len(left_rows) THEN <<>>
    ELSE LET m == JoinScanRight(on, left_rows[i], j_rows, 1)
         IN m \o (IF kind = "Left" /\ m = <<>> THEN <<left_rows[i] \o NullRow(2)>> ELSE <<>>)
              \o JoinLeftLoop(kind, on, left_rows, j_rows, i + 1)

RECURSIVE JoinRightLoop(_, _, _, _)
\* The outer loop of JoinKind::Right (sql.rs 2480-2519).
JoinRightLoop(on, left_rows, j_rows, j) ==
    IF j > Len(j_rows) THEN <<>>
    ELSE LET m == JoinScanLeft(on, left_rows, j_rows[j], 1)
         IN m \o (IF m = <<>> THEN <<NullRow(2) \o j_rows[j]>> ELSE <<>>)
              \o JoinRightLoop(on, left_rows, j_rows, j + 1)

\* handle_query over `left_rows kind JOIN j_rows ON l.k on r.k`: the
\* accumulated rows handed to execute_select_from_rows.
JoinRows(kind, on, left_rows, j_rows) ==
    IF kind = "Right" THEN JoinRightLoop(on, left_rows, j_rows, 1)
    ELSE JoinLeftLoop(kind, on, left_rows, j_rows, 1)

\* The two tables have been read and the ON clause parsed.
InitJoin ==
    /\ InitBase
    /\ locks = NoLocks
    /\ tdef = NewTableDef
    /\ arg \in {<<[left |-> l, right |-> r, on |-> on]>> :
                    l \in QueryTables, r \in QueryTables, on \in OnClauses}
    /\ ret = NoCall

\* handle_query: SELECT * FROM l <kind> JOIN r ON ...
Join(kind) ==
    /\ arg # NoCall
    /\ ret = NoCall
    /\ ret' = <<[kind |-> kind,
                 rows |-> JoinRows(kind, arg[1].on, arg[1].left, arg[1].right)]>>
    /\ UNCHANGED <<arg, storeVars>>

NextJoin == Join("Inner") \/ Join("Left") \/ Join("Right")

SpecJoin == InitJoin /\ [][NextJoin]_vars

\* ------------------------------------------------------------- Aggregates
\* Cells of an aggregate's state and result: Cell::Null, Cell::Int(n) and
\* Cell::Float(n / d), kept as the fraction.
NullC == [t |-> "Null", n |-> 0, d |-> 1]
IntC(i) == [t |-> "Int", n |-> i, d |-> 1]
FloatC(n, d) == [t |-> "Float", n |-> n, d |-> d]

\* The Cell of a cell of column k.
ToCell(v) == IF v = NullCell THEN NullC ELSE IntC(v)

\* Cell::add of an accumulated cell and a Cell::Int or Cell::Null of a row:
\* None when a side is not a number.
NoneCell == [t |-> "None", n |-> 0, d |-> 1]
CellAdd(a, b) ==
    IF a.t = "Int" /\ b.t = "Int" THEN IntC(a.n + b.n) ELSE NoneCell

\* Cell::div_count
DivCount(a, count) ==
    IF a.t = "Int" THEN FloatC(a.n, count) ELSE NoneCell

\* The accumulator a group starts with: the ones of the implicit group of an
\* empty input (sql.rs 3604-3631), or the ones made for the first row of a
\* group (sql.rs 3640-3660).
NewAcc(fname, implicit) ==
    CASE fname = "count" -> [val |-> IntC(0), count |-> 0]
      [] fname = "sum" -> [val |-> IF implicit THEN NullC ELSE IntC(0), count |-> 0]
      [] fname = "avg" -> [val |-> IntC(0), count |-> 0]
      [] OTHER -> [val |-> NullC, count |-> 0]

\* Accumulator::inc
AccInc(fname, acc) ==
    IF fname = "count" THEN [acc EXCEPT !.val = IntC(acc.val.n + 1)] ELSE acc

\* Accumulator::add: CountAcc, SumAcc, AVGAcc, MinMaxAcc
AccAdd(fname, acc, v) ==
    CASE fname = "count" -> [acc EXCEPT !.val = IntC(acc.val.n + 1)]
      [] fname = "sum" ->
            IF v = NullC \/ CellAdd(acc.val, v) = NoneCell THEN acc
            ELSE [acc EXCEPT !.val = CellAdd(acc.val, v)]
      [] fname = "avg" ->
            IF v = NullC \/ CellAdd(acc.val, v) = NoneCell THEN acc
            ELSE [val |-> CellAdd(acc.val, v), count |-> acc.count + 1]
      [] OTHER ->
            IF v = NullC THEN acc
            ELSE IF acc.val = NullC THEN [acc EXCEPT !.val = v]
            ELSE LET cmp == CompareCellForOrder(v.n, acc.val.n)
                 IN IF (fname = "min" /\ cmp = -1) \/ (fname = "max" /\ cmp = 1)
                    THEN [acc EXCEPT !.val = v] ELSE acc

\* Accumulator::finish
AccFinish(fname, acc) ==
    IF fname = "avg"
    THEN IF acc.count = 0 THEN NullC
         ELSE IF DivCount(acc.val, acc.count) = NoneCell THEN NullC
         ELSE DivCount(acc.val, acc.count)
    ELSE acc.val

RECURSIVE AccRows(_, _, _, _, _)
\* "Update Accumulators" over the rows i.. of a group: COUNT(*) takes inc, an
\* aggregate with an argument takes add of the argument's value.
AccRows(fname, has_arg, acc, rows, i) ==
    IF i > Len(rows) THEN acc
    ELSE AccRows(fname, has_arg,
                 IF fname = "count" /\ ~has_arg THEN AccInc(fname, acc)
                 ELSE IF has_arg THEN AccAdd(fname, acc, ToCell(rows[i][2]))
                 ELSE acc,
                 rows, i + 1)

\* The GroupKey of a row: empty without GROUP BY, the cell of k under GROUP BY k.
GroupKeyOf(group_by, row) == IF group_by = "k" THEN <<row[2]>> ELSE <<>>

\* The rows of the input that fall in the group of key, in input order.
GroupRows(group_by, rows, key) ==
    SelectSeq(rows, LAMBDA r : GroupKeyOf(group_by, r) = key)

\* execute_select_from_rows for SELECT fname(k or *) FROM t [GROUP BY k]: one
\* result per group (the groups come out of a HashMap, in no order).
AggregateRows(fname, has_arg, group_by, rows) ==
    IF rows = <<>>
    THEN IF group_by = "none"
         THEN {[key |-> <<>>, val |-> AccFinish(fname, NewAcc(fname, TRUE))]}
         ELSE {}
    ELSE {[key |-> key,
           val |-> AccFinish(fname, AccRows(fname, has_arg, NewAcc(fname, FALSE),
                                           GroupRows(group_by, rows, key), 1))] :
            key \in {GroupKeyOf(group_by, rows[i]) : i \in DOMAIN rows}}

\* The GROUP BY clauses of the aggregated queries.
GroupBys == {"none", "k"}

\* The rows of t have been read.
InitAggregate ==
    /\ InitBase
    /\ locks = NoLocks
    /\ tdef = NewTableDef
    /\ arg \in {<<[rows |-> r, group_by |-> g]>> : r \in QueryTables, g \in GroupBys}
    /\ ret = NoCall

\* execute_select_from_rows: SELECT fname(*) or fname(k) FROM t [GROUP BY k]
Aggregate(fname, has_arg) ==
    /\ arg # NoCall
    /\ ret = NoCall
    /\ ret' = <<[fname |-> fname, has_arg |-> has_arg,
                 groups |-> AggregateRows(fname, has_arg, arg[1].group_by, arg[1].rows)]>>
    /\ UNCHANGED <<arg, storeVars>>

NextAggregate ==
    \/ Aggregate("count", FALSE)
    \/ Aggregate("count", TRUE)
    \/ Aggregate("sum", TRUE)
    \/ Aggregate("avg", TRUE)
    \/ Aggregate("min", TRUE)
    \/ Aggregate("max", TRUE)

SpecAggregate == InitAggregate /\ [][NextAggregate]_vars

\* ------------------------------------------------- Auto-increment calls
\* What a call on the auto-increment key leaves alone.
counterFrame == <<next_tx_id, active_txns, data, max_tx_id, locks, autocommit, in_txn, tx_id,
                  read_view, pending_rows, pc, alloc, lastErr, restarts, ai_log,
                  savepoints, tables, tdef, index_entries, arg>>

\* The arguments of bump_auto_increment_next: negative, zero, and every value
\* of the counter.
BumpArgs == (0 - 1)..I64_MAX

\* Store::allocate_auto_increment on the key as it is; ret keeps the calls
\* made since the table was created.
AllocateCall ==
    LET a == AllocateAutoIncrement(auto_inc)
    IN /\ Len(ret) < MaxLog
       /\ auto_inc' = a.ai
       /\ ret' = Append(ret, [ai_op |-> "allocate", before |-> auto_inc, next |-> 0,
                              ok |-> a.ok, allocated |-> a.allocated])
       /\ UNCHANGED counterFrame

\* Store::bump_auto_increment_next(next)
BumpCall(next) ==
    /\ Len(ret) < MaxLog
    /\ auto_inc' = BumpAutoIncrementNext(auto_inc, next)
    /\ ret' = Append(ret, [ai_op |-> "bump", before |-> auto_inc, next |-> next,
                           ok |-> TRUE, allocated |-> 0])
    /\ UNCHANGED counterFrame

NextCounter == AllocateCall \/ \E next \in BumpArgs : BumpCall(next)

SpecCounter == Init /\ [][NextCounter]_vars

\* ------------------------------------------------------- Scan as a Vec
RECURSIVE ScanRowsVecLoop_TombstoneExposes(_, _, _, _, _, _, _)
\* A faulty scan loop: a visible tombstone does not set pk_found, so the loop
\* goes on to the older versions of the pk.
ScanRowsVecLoop_TombstoneExposes(d, keys, i, view, current_pk, pk_found, out) ==
    IF i > Len(keys) THEN out
    ELSE LET pk == keys[i][1]
             found0 == IF pk # current_pk THEN FALSE ELSE pk_found
             vis == IsVisible(view, ParseTxIdFromKey(keys[i]))
             val == d[pk][keys[i][2]]
         IN IF found0
            THEN ScanRowsVecLoop_TombstoneExposes(d, keys, i + 1, view, pk, found0, out)
            ELSE IF vis /\ val # NoneRow
                 THEN ScanRowsVecLoop_TombstoneExposes(d, keys, i + 1, view, pk, TRUE,
                                                       Append(out, <<pk, val>>))
                 ELSE ScanRowsVecLoop_TombstoneExposes(d, keys, i + 1, view, pk, FALSE, out)

RECURSIVE ScanRowsVecLoop(_, _, _, _, _, _, _)
\* The loop of scan_rows_mvcc with its output as the Vec it is: out is the
\* sequence of the (pk, row) pairs pushed so far.
ScanRowsVecLoop(d, keys, i, view, current_pk, pk_found, out) ==
    IF i > Len(keys) THEN out
    ELSE LET pk == keys[i][1]
             found0 == IF pk # current_pk THEN FALSE ELSE pk_found
             vis == IsVisible(view, ParseTxIdFromKey(keys[i]))
             val == d[pk][keys[i][2]]
         IN IF found0 THEN ScanRowsVecLoop(d, keys, i + 1, view, pk, found0, out)
            ELSE IF vis
                 THEN ScanRowsVecLoop(d, keys, i + 1, view, pk, TRUE,
                                      IF val # NoneRow THEN Append(out, <<pk, val>>) ELSE out)
                 ELSE ScanRowsVecLoop(d, keys, i + 1, view, pk, FALSE, out)

\* Store::scan_rows_mvcc: the Vec of (pk, row) pairs in push order.
ScanRowsVec(d, view) ==
    ScanRowsVecLoop(d, ScanTable(d, 1), 1, view, Missing, FALSE, <<>>)

\* The read views a caller can hand to a read: any horizon, any set of ids
\* that were active, with or without an own id.
ReadViews ==
    [visible_up_to : 1..U64_MAX, active : SUBSET TxIds, own_tx_id : {NoTx} \cup TxIds]

\* --------------------------------------------------------- Privileges
\* The databases, each holding a table t, and "no database": the current_db of
\* a session that has not selected one, the db part of an unqualified name.
Dbs == {"A", "B"}
NoDb == "none"

\* The privileges of the DML statements.
DmlPrivs == {"INSERT", "UPDATE", "DELETE"}

\* auth::has_priv: the global privileges, else the privileges of the user on
\* db; a user without an entry for db has the empty set.
has_priv(user, db, needed) ==
    IF needed \in user.global_privs THEN TRUE
    ELSE IF db # NoDb THEN needed \in user.db_privs[db]
    ELSE FALSE

\* The head of handle_insert, handle_update and handle_delete: require_priv on
\* the session's current database, then the database of the table from the
\* name in the statement or, for an unqualified name, the current database.
\* With res "Ok" the handler goes on to write rows of the table t of db.
DmlOutcome(user, current_db, needed, db_opt) ==
    IF ~has_priv(user, current_db, needed) THEN [res |-> "AccessDenied", db |-> NoDb]
    ELSE LET db == IF db_opt # NoDb THEN db_opt ELSE current_db
         IN IF db = NoDb THEN [res |-> "Invalid", db |-> NoDb]
            ELSE [res |-> "Ok", db |-> db]

\* A user with some DML privileges has logged in and selected a database or
\* none.
InitPriv ==
    /\ InitBase
    /\ locks = NoLocks
    /\ tdef = NewTableDef
    /\ arg \in {<<[user |-> [global_privs |-> g, db_privs |-> p], current_db |-> d]>> :
                    g \in SUBSET DmlPrivs, p \in [Dbs -> SUBSET DmlPrivs],
                    d \in Dbs \cup {NoDb}}
    /\ ret = NoCall

\* An INSERT, UPDATE or DELETE (needed) on the table named t (db_opt = NoDb)
\* or db_opt.t.
DmlStatement(needed, db_opt) ==
    /\ arg # NoCall
    /\ ret = NoCall
    /\ ret' = <<[needed |-> needed, db_opt |-> db_opt,
                 out |-> DmlOutcome(arg[1].user, arg[1].current_db, needed, db_opt)]>>
    /\ UNCHANGED <<arg, storeVars>>

NextPriv == \E needed \in DmlPrivs : \E db_opt \in Dbs \cup {NoDb} : DmlStatement(needed, db_opt)

SpecPriv == InitPriv /\ [][NextPriv]_vars

\* ======================================================================
\* Properties
\* ======================================================================

\* The read views that exist in a state: those of the open transactions, the
\* one start_txn would hand out now, and the legacy all-seeing one.
ViewsInState ==
    {read_view[c] : c \in {x \in Conns : tx_id[x] # NoTx}}
        \cup {NewReadView(next_tx_id, active_txns), LegacyView}

\* The writer tx ids of the versions of pk in the data tree d.
Writers(d, pk) == {tx \in 0..U64_MAX : d[pk][U64_MAX - tx] # Missing}

\* The version of pk written by tx.
VersionOf(d, pk, tx) == d[pk][U64_MAX - tx]

MaxOf(S) == CHOOSE x \in S : \A y \in S : y <= x

\* Conn c has staged a write of pk.
HasPending(c, pk) == pending_rows[c][pk] # Missing

\* The step is COMMIT of a transaction of c that has pending rows.
CommitsWrites(c) ==
    /\ tx_id[c] # NoTx
    /\ PendingKeys(pending_rows[c]) # {}
    /\ Commit(c)

\* ---------------------------------------------------------------- C1
\* C1 (as claimed): of two concurrent transactions that write the same pk at
\* most one commits without error. Stated on the COMMIT step of a transaction
\* with a staged write of pk: no transaction that ran concurrently with it (one
\* in its view's active set, or one with a later id) has a committed version
\* of pk in the store.
C1_AtMostOneCommits ==
    [][\A c \in Conns :
          CommitsWrites(c) =>
              \A pk \in PendingKeys(pending_rows[c]) :
                  ~ \E w \in Writers(data, pk) \ {tx_id[c]} :
                        w \in read_view[c].active \/ w > tx_id[c]]_vars

\* A write statement of conn c whose first row is pk.
WritesFirst(c, pk) ==
    \/ UpdateByPk(c, pk)
    \/ DeleteByPk(c, pk)
    \/ \E pks \in InsertPks : pks[1] = pk /\ Insert(c, pks)
    \/ \E w \in Vals :
          /\ ScanTargets(c, w) # <<>>
          /\ ScanTargets(c, w)[1] = pk
          /\ UpdateByVal(c, w) \/ DeleteByVal(c, w)

\* C1 (amended): two sessions never both hold a staged write of one pk, and
\* while another session holds the row lock of pk every INSERT, UPDATE or
\* DELETE that reaches pk first fails with LockWaitTimeout and changes neither
\* the store, nor the session's pending rows, nor the holder of the lock.
C1_LockExcludesSecondWriter ==
    /\ [](\A c1 \in Conns : \A c2 \in Conns \ {c1} : \A pk \in PKs :
            ~(HasPending(c1, pk) /\ HasPending(c2, pk)))
    /\ [][\A c \in Conns : \A pk \in PKs :
            (locks.by_key[pk] \notin {NoConn, c} /\ WritesFirst(c, pk)) =>
                /\ lastErr'.res = "LockWaitTimeout"
                /\ data' = data
                /\ pending_rows'[c] = pending_rows[c]
                /\ locks'.by_key[pk] = locks.by_key[pk]]_vars

\* A second writer was turned away while the first still holds its staged
\* write and both transactions are open.
C1_Witness ==
    /\ lastErr.res = "LockWaitTimeout"
    /\ \E c1 \in Conns : \E c2 \in Conns \ {c1} : \E pk \in PKs :
          /\ HasPending(c1, pk)
          /\ locks.by_key[pk] = c1
          /\ tx_id[c2] # NoTx /\ in_txn[c2]

\* ---------------------------------------------------------------- C2
\* C2: inside one transaction a row the transaction has not written reads the
\* same before and after every step of any session.
C2_RepeatableRead ==
    [][\A c \in Conns : \A pk \in PKs :
          (/\ tx_id[c] # NoTx
           /\ tx_id'[c] = tx_id[c]
           /\ read_view'[c] = read_view[c]
           /\ ~HasPending(c, pk)
           /\ pending_rows'[c][pk] = Missing)
          => TxnGetRow(data', pending_rows'[c], read_view'[c], pk)
               = TxnGetRow(data, pending_rows[c], read_view[c], pk)]_vars

\* ---------------------------------------------------------------- C3
\* C3: once COMMIT has returned, a transaction started next reads, for every
\* pk the committed transaction wrote, the row it wrote (no row for a delete).
C3_CommittedWritesVisible ==
    [][\A c \in Conns :
          CommitsWrites(c) =>
              \A pk \in PendingKeys(pending_rows[c]) :
                  GetRowMvcc(data', pk, NewReadView(next_tx_id', active_txns'))
                      = pending_rows[c][pk]]_vars

\* ---------------------------------------------------------------- C4
\* The step applies the pending rows of c to the store: COMMIT, or the
\* implicit commit of BEGIN.
AppliesPending(c) ==
    /\ tx_id[c] # NoTx
    /\ PendingKeys(pending_rows[c]) # {}
    /\ Commit(c) \/ BeginFetch(c)

\* C4: the store holds no version under the id of a transaction that is still
\* open; a step that stages rows of a session leaves the store and the reads
\* of every other open transaction as they were; the step that commits a
\* transaction writes all of its pending rows, under its tx id, and nothing
\* else.
C4_PendingPrivateCommitAtomic ==
    /\ [](\A c \in Conns : \A pk \in PKs :
            tx_id[c] # NoTx => tx_id[c] \notin Writers(data, pk))
    /\ [][\A c \in Conns :
            /\ (pending_rows'[c] # pending_rows[c] /\ pending_rows'[c] # NoPending) =>
                  /\ data' = data
                  /\ \A r \in Conns \ {c} : \A pk \in PKs :
                        (tx_id[r] # NoTx /\ tx_id'[r] = tx_id[r]) =>
                            TxnGetRow(data', pending_rows'[r], read_view'[r], pk)
                              = TxnGetRow(data, pending_rows[r], read_view[r], pk)
            /\ AppliesPending(c) =>
                  \A pk \in PKs : \A tx \in 0..U64_MAX :
                      VersionOf(data', pk, tx) =
                          IF tx = tx_id[c] /\ HasPending(c, pk)
                          THEN pending_rows[c][pk]
                          ELSE VersionOf(data, pk, tx)]_vars

\* A session has staged writes of two rows while another open transaction
\* reads something else for each of them.
C4_Witness ==
    \E c \in Conns : \E r \in Conns \ {c} :
        /\ tx_id[c] # NoTx /\ tx_id[r] # NoTx
        /\ PendingKeys(pending_rows[c]) = PKs
        /\ \A pk \in PKs :
              TxnGetRow(data, pending_rows[r], read_view[r], pk) # pending_rows[c][pk]

\* ---------------------------------------------------------------- C5
\* The writers of the versions of pk that the view sees.
VisibleWriters(pk, view) == {tx \in Writers(data, pk) : IsVisible(view, tx)}

\* C5: under every view get_row returns the version of the greatest visible
\* writer tx id; no row when that version is a tombstone or none is visible.
C5_NewestVisibleVersion ==
    \A pk \in PKs : \A view \in ViewsInState :
        GetRowMvcc(data, pk, view) =
            IF VisibleWriters(pk, view) = {} THEN NoneRow
            ELSE VersionOf(data, pk, MaxOf(VisibleWriters(pk, view)))

\* A row whose newest visible version is a tombstone over an older visible
\* version that is a row.
C5_Witness ==
    \E pk \in PKs : \E view \in ViewsInState :
        /\ Cardinality(VisibleWriters(pk, view)) >= 2
        /\ VersionOf(data, pk, MaxOf(VisibleWriters(pk, view))) = NoneRow
        /\ \E tx \in VisibleWriters(pk, view) : VersionOf(data, pk, tx) # NoneRow

\* ---------------------------------------------------------------- C6
\* C6: is_visible(t) holds exactly when t is the view's own tx id, or t is
\* below visible_up_to and not in the view's active set.
C6_VisibilityExact ==
    \A view \in ViewsInState : \A t \in 0..U64_MAX :
        IsVisible(view, t) <=>
            \/ (view.own_tx_id # NoTx /\ t = view.own_tx_id)
            \/ (t < view.visible_up_to /\ t \notin view.active)

\* An open transaction whose view has a non-empty active set, one member of
\* which has meanwhile committed a version.
C6_Witness ==
    \E c \in Conns : \E pk \in PKs :
        /\ tx_id[c] # NoTx
        /\ \E w \in read_view[c].active : w \in Writers(data, pk)

\* ---------------------------------------------------------------- C7
\* The rows a successful statement of c wrote are in place: staged in the
\* pending buffer, or (autocommit) read by the transaction started next.
RowsInPlace(c, pks, v) ==
    \A pk \in pks :
        IF ShouldBufferWrites(c)
        THEN pending_rows'[c][pk] = v
        ELSE GetRowMvcc(data', pk, NewReadView(next_tx_id', active_txns')) = v

\* The step changed neither the store nor the pending rows of c.
NothingWritten(c) ==
    /\ data' = data
    /\ pending_rows'[c] = pending_rows[c]

\* All or nothing: with no error every row of pks holds v, with an error
\* nothing was written.
AllOrNothing(c, pks, v) ==
    IF lastErr' = NoError THEN RowsInPlace(c, pks, v) ELSE NothingWritten(c)

\* The rows UPDATE/DELETE ... WHERE v = w of conn c has to change.
TargetSet(c, w) ==
    LET rows == TxnScanRows(data, pending_rows[c], read_view[c])
    IN {pk \in PKs : rows[pk] = w}

\* C7: an INSERT, UPDATE or DELETE statement either succeeds with every one of
\* its rows written, or fails and leaves the store and the session's pending
\* rows as they were. Stated contrapositively: no step that is not
\* all-or-nothing for a statement is a step of that statement.
C7_StatementAtomicity ==
    [][\A c \in Conns :
          /\ \A pks \in InsertPks :
                ~AllOrNothing(c, {pks[i] : i \in 1..Len(pks)}, ValOf(c))
                    => ~Insert(c, pks)
          /\ \A w \in Vals :
                ~AllOrNothing(c, TargetSet(c, w), ValOf(c)) => ~UpdateByVal(c, w)
          /\ \A w \in Vals :
                ~AllOrNothing(c, TargetSet(c, w), NoneRow) => ~DeleteByVal(c, w)]_vars

\* A statement failed on its second row, after its first row had passed the
\* lock and the duplicate check, in a session that has staged rows.
C7_Witness ==
    /\ lastErr.res \in {"Invalid", "LockWaitTimeout"}
    /\ lastErr.at = 2
    /\ \E c \in Conns : PendingKeys(pending_rows[c]) # {}

\* ---------------------------------------------------------------- C8
\* The conns that hold the lock of key k according to either map.
Holders(k) ==
    {o \in Conns : k \in locks.by_owner[o]} \cup ({locks.by_key[k]} \ {NoConn})

\* C8: every row key has at most one lock holder.
C8_OneHolderPerKey ==
    \A k \in PKs : Cardinality(Holders(k)) <= 1

\* Both sessions hold a row lock and a lock request has just been refused.
C8_Witness ==
    /\ lastErr.res = "LockWaitTimeout"
    /\ \A o \in Conns : \E k \in PKs : Holders(k) = {o}

\* ---------------------------------------------------------------- C9
\* C9: the persisted max_tx_id is at least the writer tx id of every version.
C9_WatermarkCoversVersions ==
    \A pk \in PKs : \A tx \in Writers(data, pk) :
        max_tx_id # Missing /\ max_tx_id >= tx

\* --------------------------------------------------------------- C10
\* C10: after a restart the next tx id exceeds the writer tx id of every
\* version, and a transaction started when no other is running reads the
\* newest version of every row.
C10_RecoveryKeepsRowsAndIds ==
    restarts > 0 =>
        /\ \A pk \in PKs : \A tx \in Writers(data, pk) : tx < next_tx_id
        /\ (active_txns = {} =>
              \A pk \in PKs :
                  GetRowMvcc(data, pk, NewReadView(next_tx_id, active_txns))
                      = GetRowMvcc(data, pk, LegacyView))

\* --------------------------------------------------------------- C11
\* C11: in the history of the pks of the inserts into the AUTO_INCREMENT
\* table, every generated pk is greater than every pk before it, generated
\* or explicit.
C11_GeneratedPksIncrease ==
    \A j \in DOMAIN ai_log : \A i \in 1..(j - 1) :
        ai_log[j].generated => ai_log[j].pk > ai_log[i].pk

\* --------------------------------------------------------------- C12
\* The rows conn c holds a lock on according to either map of the lock table st.
LockedBy(st, c) == st.by_owner[c] \cup {k \in PKs : st.by_key[k] = c}

\* C12: a ROLLBACK of a transaction leaves the session without pending rows,
\* its tx id out of the active set and no row locked by it; it changes neither
\* the store nor what any other open transaction reads, the store holds no
\* version under the rolled-back tx id, and the transaction started next reads
\* every row from the committed store as it was.
C12_RollbackDiscards ==
    [][\A c \in Conns :
          (tx_id[c] # NoTx /\ tx_id'[c] = NoTx /\ Rollback(c)) =>
              /\ pending_rows'[c] = NoPending
              /\ tx_id[c] \notin active_txns'
              /\ LockedBy(locks', c) = {}
              /\ data' = data /\ max_tx_id' = max_tx_id
              /\ \A pk \in PKs : tx_id[c] \notin Writers(data', pk)
              /\ \A r \in Conns \ {c} : \A pk \in PKs :
                    tx_id[r] # NoTx =>
                        TxnGetRow(data', pending_rows'[r], read_view'[r], pk)
                          = TxnGetRow(data, pending_rows[r], read_view[r], pk)
              /\ \A pk \in PKs :
                    TxnGetRow(data', pending_rows'[c],
                              NewReadView(next_tx_id', active_txns'), pk)
                      = GetRowMvcc(data, pk, NewReadView(next_tx_id, active_txns \ {tx_id[c]}))]_vars

\* A transaction that ROLLBACK can discard: it has staged an insert and a
\* delete that its own reads return and holds their row locks, while another
\* transaction is open.
C12_Witness ==
    \E c \in Conns : \E r \in Conns \ {c} :
        /\ pc[c] = "idle" /\ in_txn[c] /\ tx_id[c] \in active_txns
        /\ tx_id[r] # NoTx
        /\ PendingKeys(pending_rows[c]) = PKs
        /\ LockedBy(locks, c) = PKs
        /\ \E pk \in PKs : pending_rows[c][pk] = NoneRow
        /\ \E pk \in PKs : pending_rows[c][pk] \in Rows

\* --------------------------------------------------------------- C13
\* The position of the last savepoint of conn c named n, 0 when there is none.
LastNamed(c, n) ==
    IF \E i \in DOMAIN savepoints[c] : savepoints[c][i].name = n
    THEN MaxOf({i \in DOMAIN savepoints[c] : savepoints[c][i].name = n})
    ELSE 0

\* The versions the store holds under tx id tx after the step are the rows p,
\* and every other version is as it was.
WritesExactly(p, tx) ==
    \A pk \in PKs : \A t \in 0..U64_MAX :
        VersionOf(data', pk, t) =
            IF t = tx /\ p[pk] # Missing THEN p[pk] ELSE VersionOf(data, pk, t)

\* C13: a savepoint is created holding the pending rows of that moment and is
\* never altered while it is on the stack; ROLLBACK TO SAVEPOINT n makes the
\* pending rows equal to the snapshot of the last savepoint named n, keeps the
\* stack up to and including that savepoint, and leaves the store alone; a
\* COMMIT writes exactly the rows that are pending when it runs, so rows staged
\* before the savepoint are written and rows discarded by the rollback are not.
C13_RollbackToRestores ==
    [][\A c \in Conns :
          /\ \A i \in DOMAIN savepoints[c] \cap DOMAIN savepoints'[c] :
                savepoints'[c][i] = savepoints[c][i]
          /\ Len(savepoints'[c]) > Len(savepoints[c]) =>
                /\ Len(savepoints'[c]) = Len(savepoints[c]) + 1
                /\ savepoints'[c][Len(savepoints'[c])].pending = pending_rows[c]
                /\ pending_rows'[c] = pending_rows[c]
          /\ \A n \in SpNames :
                (in_txn[c] /\ LastNamed(c, n) # 0 /\ RollbackToSavepoint(c, n)) =>
                    /\ lastErr' = NoError
                    /\ pending_rows'[c] = savepoints[c][LastNamed(c, n)].pending
                    /\ savepoints'[c] = SubSeq(savepoints[c], 1, LastNamed(c, n))
                    /\ data' = data
                    /\ locks' = locks
          /\ (tx_id[c] # NoTx /\ Commit(c)) => WritesExactly(pending_rows[c], tx_id[c])]_vars

\* After a ROLLBACK TO SAVEPOINT: the pending rows equal the snapshot of the
\* savepoint on top of the stack, which holds a row staged before it, and the
\* session still holds the lock of a row whose write, staged after the
\* savepoint, is gone.
C13_Witness ==
    \E c \in Conns :
        /\ in_txn[c]
        /\ savepoints[c] # <<>>
        /\ savepoints[c][Len(savepoints[c])].pending = pending_rows[c]
        /\ PendingKeys(pending_rows[c]) # {}
        /\ \E pk \in PKs : locks.by_key[pk] = c /\ pending_rows[c][pk] = Missing

\* --------------------------------------------------------------- C14
\* C14: RELEASE SAVEPOINT n leaves the pending rows and the store unchanged
\* and cuts the stack just below the last savepoint named n, so that a
\* savepoint named n remains only if an earlier one carried the name; ROLLBACK
\* TO SAVEPOINT n with no savepoint named n on the stack fails with NotFound
\* and changes neither the pending rows, nor the stack, nor the store.
C14_ReleaseRemovesSavepoint ==
    [][\A c \in Conns : \A n \in SpNames :
          /\ (in_txn[c] /\ LastNamed(c, n) # 0 /\ ReleaseSavepoint(c, n)) =>
                /\ lastErr' = NoError
                /\ pending_rows' = pending_rows
                /\ data' = data
                /\ savepoints'[c] = SubSeq(savepoints[c], 1, LastNamed(c, n) - 1)
                /\ \A i \in DOMAIN savepoints'[c] :
                      savepoints'[c][i].name = n =>
                          i < LastNamed(c, n) /\ savepoints[c][i].name = n
          /\ (in_txn[c] /\ LastNamed(c, n) = 0 /\ RollbackToSavepoint(c, n)) =>
                /\ lastErr'.res = "NotFound"
                /\ pending_rows' = pending_rows
                /\ savepoints' = savepoints
                /\ data' = data]_vars

\* A savepoint statement of the only session in a transaction has just failed
\* with NotFound while the session has pending rows and a savepoint of the
\* other name left.
C14_Witness ==
    /\ lastErr.res = "NotFound"
    /\ \E c \in Conns :
          /\ in_txn[c]
          /\ \A r \in Conns \ {c} : ~in_txn[r]
          /\ PendingKeys(pending_rows[c]) # {}
          /\ Len(savepoints[c]) = 1

\* --------------------------------------------------------------- C15
\* The step is an INSERT, UPDATE or DELETE statement of conn c.
WriteStmt(c) ==
    \/ \E pks \in InsertPks : Insert(c, pks)
    \/ \E pk \in PKs : UpdateByPk(c, pk) \/ DeleteByPk(c, pk)
    \/ \E w \in Vals : UpdateByVal(c, w) \/ DeleteByVal(c, w)

\* C15: a DML statement of a session with autocommit off leaves the store and
\* the reads of the other open transactions as they were; a successful DML
\* statement of a session with autocommit on that had no transaction open when
\* the statement arrived (the statement started its own) is committed when it
\* returns: the session is left without transaction, pending rows and locks.
C15_BufferedUnlessAutocommit ==
    [][\A c \in Conns :
          /\ (~autocommit[c] /\ Ready(c) /\ WriteStmt(c)) =>
                /\ data' = data
                /\ \A r \in Conns \ {c} : \A pk \in PKs :
                      tx_id[r] # NoTx =>
                          TxnGetRow(data', pending_rows'[r], read_view'[r], pk)
                            = TxnGetRow(data, pending_rows[r], read_view[r], pk)
          /\ (autocommit[c] /\ pc[c] = "exec" /\ WriteStmt(c) /\ lastErr' = NoError) =>
                /\ tx_id'[c] = NoTx
                /\ pending_rows'[c] = NoPending
                /\ LockedBy(locks', c) = {}]_vars

\* --------------------------------------------------------------- C16
\* The step is a DDL statement of conn c.
DdlStmt(c) == CreateTable(c) \/ DropTable(c)

\* C16: a DDL statement of a session with an open transaction commits it: the
\* transaction started next reads every row that was pending as it was
\* pending, the session is left without pending rows and without row locks;
\* and a ROLLBACK never changes the store.
C16_DdlCommitsFirst ==
    [][\A c \in Conns :
          /\ (tx_id[c] # NoTx /\ DdlStmt(c)) =>
                /\ \A pk \in PendingKeys(pending_rows[c]) :
                      GetRowMvcc(data', pk, NewReadView(next_tx_id', active_txns'))
                          = pending_rows[c][pk]
                /\ pending_rows'[c] = NoPending
                /\ LockedBy(locks', c) = {}
          /\ Rollback(c) => data' = data]_vars

\* --------------------------------------------------------------- C17
\* C17: SET autocommit = 1 in a session that has autocommit off and a
\* transaction open or rows pending commits: the transaction started next
\* reads every row that was pending as it was pending, and the session is left
\* without transaction, pending rows and row locks.
C17_EnableAutocommitCommits ==
    [][\A c \in Conns :
          (/\ ~autocommit[c]
           /\ in_txn[c] \/ PendingKeys(pending_rows[c]) # {}
           /\ SetAutocommit(c, TRUE)) =>
              /\ \A pk \in PendingKeys(pending_rows[c]) :
                    GetRowMvcc(data', pk, NewReadView(next_tx_id', active_txns'))
                        = pending_rows[c][pk]
              /\ tx_id'[c] = NoTx
              /\ pending_rows'[c] = NoPending
              /\ LockedBy(locks', c) = {}]_vars

\* --------------------------------------------------------------- C18
\* The tx ids in the active set that belong to no session: those of the
\* transactions that were open when their connection ended.
Orphaned ==
    {t \in active_txns : \A c \in Conns : tx_id[c] # t /\ alloc[c] # t}

\* C18: when a connection ends, no row stays locked by it and every row it
\* had locked can be locked by any other session; its pending rows are gone,
\* the store and the reads of the other open transactions are as they were;
\* and the store never holds a version under the tx id of a transaction whose
\* connection ended.
C18_DropReleasesAndDiscards ==
    /\ [](\A t \in Orphaned : \A pk \in PKs : t \notin Writers(data, pk))
    /\ [][\A c \in Conns :
            Disconnect(c) =>
                /\ LockedBy(locks', c) = {}
                /\ \A k \in LockedBy(locks, c) : \A r \in Conns \ {c} :
                      LockManager_lock(locks', r, k).res = "acquired"
                /\ pending_rows'[c] = NoPending /\ tx_id'[c] = NoTx
                /\ data' = data /\ max_tx_id' = max_tx_id
                /\ \A r \in Conns \ {c} : \A pk \in PKs :
                      tx_id[r] # NoTx =>
                          TxnGetRow(data', pending_rows'[r], read_view'[r], pk)
                            = TxnGetRow(data, pending_rows[r], read_view[r], pk)]_vars

\* A connection ended with its transaction open, and another session, in a
\* transaction started later, has locked and staged writes of every row.
C18_Witness ==
    /\ Orphaned # {}
    /\ \E r \in Conns :
          /\ tx_id[r] # NoTx /\ tx_id[r] > MaxOf(Orphaned)
          /\ LockedBy(locks, r) = PKs
          /\ PendingKeys(pending_rows[r]) = PKs

\* --------------------------------------------------------------- C19
\* The step ends the transaction of conn c: COMMIT, ROLLBACK, or the implicit
\* commit of BEGIN.
EndsTxn(c) == Commit(c) \/ Rollback(c) \/ BeginFetch(c)

C20_FailedStatementUndone ==
    [][lastErr' # NoError =>
          /\ data' = data
          /\ locks' = locks
          /\ \A c \in Conns :
                (pc[c] = "idle" /\ tx_id[c] # NoTx) =>
                    /\ ShouldBufferWrites(c)
                    /\ pending_rows'[c] = pending_rows[c]
                    /\ savepoints'[c] = savepoints[c]
                    /\ tx_id'[c] = tx_id[c]
                    /\ read_view'[c] = read_view[c]
                    /\ in_txn'[c] = in_txn[c]
                    /\ tx_id[c] \in active_txns'
                    /\ pc'[c] = "idle"]_vars

\* The only transaction ever started holds a pending row, its lock and a
\* savepoint, and its last statement, a two-row INSERT, failed at its second
\* row after taking a new lock for its first: that lock is free again.
C20_Witness ==
    /\ lastErr = [res |-> "Invalid", at |-> 2]
    /\ next_tx_id = 2
    /\ \E c \in Conns :
          /\ tx_id[c] = 1
          /\ pc[c] = "idle"
          /\ savepoints[c] # <<>>
          /\ PendingKeys(pending_rows[c]) # {}
          /\ LockedBy(locks, c) = PendingKeys(pending_rows[c])
          /\ \E pk \in PKs : locks.by_key[pk] = NoConn

\* --------------------------------------------------------------- C21
\* The newest committed version of pk in the store is a row.
CommittedLive(d, pk) == GetRowMvcc(d, pk, LegacyView) # NoneRow

\* C21: an INSERT one of whose pks has a live row when it runs (committed by
\* any session, pending in the inserting session, or given earlier in the same
\* statement) fails with Invalid, unless a row lock refuses it first, and
\* writes nothing to the store or to the pending rows.
C21_InsertRejectsDuplicates ==
    [][\A c \in Conns : \A pks \in InsertPks :
          (/\ Ready(c)
           /\ \E i \in DOMAIN pks :
                 \/ CommittedLive(data, pks[i])
                 \/ pending_rows[c][pks[i]] \notin {Missing, NoneRow}
                 \/ \E j \in 1..(i - 1) : pks[j] = pks[i]
           /\ Insert(c, pks)) =>
              /\ lastErr'.res \in {"Invalid", "LockWaitTimeout"}
              /\ data' = data
              /\ pending_rows'[c] = pending_rows[c]]_vars

\* --------------------------------------------------------------- C22
\* C22: when t has the index idx_v, the index holds exactly one entry
\* (cell of v, pk) for each pk whose newest committed version is a row, the
\* cell being that of the row, and no entry for any other pk.
C22_IndexMatchesRows ==
    "idx_v" \in tdef.indexes =>
        index_entries = {<<CellV(LatestRow(data, pk)), pk>> :
                            pk \in {q \in PKs : LatestRow(data, q) # NoneRow}}

\* --------------------------------------------------------------- C23
\* C23: while t is dropped the store holds no row version, no index entry and
\* no auto-increment counter of t, and a table t created again that has no
\* index yet has no index entry.
C23_DropCascades ==
    /\ tdef = NoTableDef => (data = NoRows /\ auto_inc = Missing)
    /\ tdef.indexes = {} => index_entries = {}

\* --------------------------------------------------------------- C24
\* C24: no row of an INSERT that gives NULL or a value of another type for the
\* column v INT NOT NULL is merged into a pending buffer or applied to the
\* store: the pending rows and the row versions all hold an INT in v.
C24_InsertChecksConstraints ==
    /\ \A c \in Conns : \A pk \in PKs :
          pending_rows[c][pk] \notin {Missing, NoneRow} => CellV(pending_rows[c][pk]) \in Vals
    /\ \A pk \in PKs : \A inv \in InvKeys :
          data[pk][inv] \notin {Missing, NoneRow} => CellV(data[pk][inv]) \in Vals

\* --------------------------------------------------------------- C25
\* C25: an UPDATE or DELETE with WHERE v = NULL selects no row: it leaves the
\* pending rows of its session and the store as they were.
C25_EqNullSelectsNothing ==
    [][\A c \in Conns :
          (Ready(c) /\ (UpdateByVal(c, NullV) \/ DeleteByVal(c, NullV))) =>
              /\ pending_rows'[c] = pending_rows[c]
              /\ data' = data]_vars

\* --------------------------------------------------------------- C26
\* The join predicate holds of the pair: a Null key never matches.
KeysMatch(on, l, r) ==
    /\ l[2] # NullCell
    /\ r[2] # NullCell
    /\ IF on = "=" THEN l[2] = r[2] ELSE l[2] < r[2]

\* The number of positions of the sequence rows that hold the row x.
Occurrences(rows, x) == Cardinality({i \in DOMAIN rows : rows[i] = x})

\* C26: in the result of a LEFT JOIN every left row appears once with each
\* right row that satisfies the join predicate, and once with two Null right
\* cells exactly when no right row does; the result of a RIGHT JOIN is the
\* same with the sides exchanged; the result holds no other row; a Null join
\* key never matches.
C26_OuterJoinPreserves ==
    (ret # NoCall /\ "kind" \in DOMAIN ret[1] /\ ret[1].kind \in {"Left", "Right"}) =>
        LET a == arg[1]
            out == ret[1].rows
            keep == IF ret[1].kind = "Left" THEN a.left ELSE a.right
            other == IF ret[1].kind = "Left" THEN a.right ELSE a.left
            Comb(x, y) == IF ret[1].kind = "Left" THEN x \o y ELSE y \o x
            Match(x, y) == IF ret[1].kind = "Left" THEN KeysMatch(a.on, x, y)
                           ELSE KeysMatch(a.on, y, x)
        IN /\ \A i \in DOMAIN keep :
                /\ \A j \in DOMAIN other :
                      Occurrences(out, Comb(keep[i], other[j]))
                        = IF Match(keep[i], other[j]) THEN 1 ELSE 0
                /\ Occurrences(out, Comb(keep[i], NullRow(2)))
                        = IF \E j \in DOMAIN other : Match(keep[i], other[j]) THEN 0 ELSE 1
           /\ Len(out) = Cardinality({<<i, j>> \in (DOMAIN keep) \X (DOMAIN other) :
                                          Match(keep[i], other[j])})
                          + Cardinality({i \in DOMAIN keep :
                                          ~\E j \in DOMAIN other : Match(keep[i], other[j])})

\* A LEFT JOIN on equal keys whose left table has a row that matches, a row
\* with a Null key and whose right table has a row with a Null key.
C26_Witness ==
    /\ ret # NoCall
    /\ "kind" \in DOMAIN ret[1]
    /\ ret[1].kind = "Left"
    /\ arg[1].on = "="
    /\ \E i \in DOMAIN arg[1].left : arg[1].left[i][2] = NullCell
    /\ \E j \in DOMAIN arg[1].right : arg[1].right[j][2] = NullCell
    /\ \E i \in DOMAIN arg[1].left : \E j \in DOMAIN arg[1].right :
          KeysMatch("=", arg[1].left[i], arg[1].right[j])

\* --------------------------------------------------------------- C27
\* The cells of column k of the rows of a group, and those that are not Null.
GroupCells(key) ==
    LET rows == GroupRows(arg[1].group_by, arg[1].rows, key)
    IN [i \in DOMAIN rows |-> rows[i][2]]
NonNull(cells) == SelectSeq(cells, LAMBDA v : v # NullCell)

RECURSIVE SumCells(_)
SumCells(cells) == IF cells = <<>> THEN 0 ELSE Head(cells) + SumCells(Tail(cells))

\* What the aggregate fname is of the cells, Null cells skipped.
SkipsNull(fname, has_arg, cells, val) ==
    LET nn == NonNull(cells)
        Range == {nn[i] : i \in DOMAIN nn}
    IN CASE fname = "count" /\ ~has_arg -> val = IntC(Len(cells))
         [] fname = "count" /\ has_arg -> val = IntC(Len(nn))
         [] fname = "sum" -> nn # <<>> => val = IntC(SumCells(nn))
         [] fname = "avg" ->
               IF nn = <<>> THEN val = NullC
               ELSE val.t = "Float" /\ val.n * Len(nn) = SumCells(nn) * val.d
         [] fname = "min" ->
               nn # <<>> => (val.t = "Int" /\ val.n \in Range /\ \A x \in Range : val.n <= x)
         [] fname = "max" ->
               nn # <<>> => (val.t = "Int" /\ val.n \in Range /\ \A x \in Range : val.n >= x)

\* C27: in every group COUNT(*) is the number of rows, COUNT(k) the number of
\* rows whose k is not Null, SUM, AVG, MIN and MAX are those of the cells of k
\* that are not Null, and AVG is Null when no cell of k is not Null.
C27_AggregatesSkipNull ==
    (ret # NoCall /\ "fname" \in DOMAIN ret[1]) =>
        \A g \in ret[1].groups :
            SkipsNull(ret[1].fname, ret[1].has_arg, GroupCells(g.key), g.val)

\* The same for every aggregate but COUNT(k).
C27_OthersSkipNull ==
    (ret # NoCall /\ "fname" \in DOMAIN ret[1]
        /\ ~(ret[1].fname = "count" /\ ret[1].has_arg)) =>
        \A g \in ret[1].groups :
            SkipsNull(ret[1].fname, ret[1].has_arg, GroupCells(g.key), g.val)

\* --------------------------------------------------------------- C28
\* The row a read of pk by session c returns: txn_get_row through the view of
\* its open transaction.
ReadReturns(c, pk) == TxnGetRow(data, pending_rows[c], read_view[c], pk)

\* C28: every row a read returns has as many cells as the definition of the
\* table has columns, also when ALTER TABLE ADD COLUMN interleaves with a
\* transaction that has pending writes to the table or an open snapshot of it.
C28_RowShapeMatchesDef ==
    \A c \in Conns : \A pk \in PKs :
        (tx_id[c] # NoTx /\ tdef # NoTableDef /\ ReadReturns(c, pk) \notin {Missing, NoneRow})
            => RowCells(ReadReturns(c, pk)) = tdef.ncols

\* --------------------------------------------------------------- C29
\* The transactions that have been given an id and have neither committed
\* nor rolled back: those in the active set and those whose start_txn is past
\* its fetch_add.
Unfinished == active_txns \cup {alloc[c] : c \in {x \in Conns : alloc[x] # NoTx}}

\* C29: start_txn is one atomic step: the id of the view it creates is above
\* every id given out before and belongs to no other transaction, the view
\* does not hold its own id in its active set, and every id below the view's
\* visible_up_to whose transaction has not committed or rolled back when the
\* view is created is in the view's active set.
C29_StartTxnAtomic ==
    [][\A c \in Conns :
          (read_view'[c] # read_view[c] /\ read_view'[c] # NoView) =>
              LET view == read_view'[c]
              IN /\ \A o \in Conns \ {c} : tx_id[o] # view.own_tx_id
                 /\ view.own_tx_id \notin view.active
                 /\ \A t \in TxIds :
                       (t < view.visible_up_to /\ t \in Unfinished) => t \in view.active]_vars

\* The parts of C29 that do not depend on the id and the snapshot being taken
\* in one step: ids are unique and a view does not hold its own id.
C29_UniqueAndNotOwn ==
    [][\A c \in Conns :
          (read_view'[c] # read_view[c] /\ read_view'[c] # NoView) =>
              /\ \A o \in Conns \ {c} : tx_id[o] # read_view'[c].own_tx_id
              /\ read_view'[c].own_tx_id \notin read_view'[c].active]_vars

\* --------------------------------------------------------------- C30
\* C30: lock(owner, key) on a key nobody holds gives the key to owner and
\* reports it newly acquired; on a key owner holds it reports reentrant and
\* changes nothing; on a key another connection holds it fails at once with
\* LockWaitTimeout and changes nothing; there is no fourth outcome; and
\* unlock(owner, key) by a connection that does not hold the key changes
\* nothing.
C30_LockOutcomes ==
    (ret # NoCall /\ "op" \in DOMAIN ret[1]) =>
        LET before == ret[1].before
            owner == arg[1].owner
            key == arg[1].key
            holder == before.by_key[key]
        IN IF ret[1].op = "lock"
           THEN CASE holder = NoConn ->
                       /\ ret[1].res = "acquired"
                       /\ locks.by_key = [before.by_key EXCEPT ![key] = owner]
                       /\ locks.by_owner = [before.by_owner EXCEPT ![owner] = @ \cup {key}]
                  [] holder = owner ->
                       ret[1].res = "reentrant" /\ locks = before
                  [] OTHER ->
                       ret[1].res = "LockWaitTimeout" /\ locks = before
           ELSE holder # owner => locks = before

\* A lock call has just failed on a key another connection holds, while its
\* caller holds the other key.
C30_Witness ==
    /\ ret # NoCall
    /\ "op" \in DOMAIN ret[1]
    /\ ret[1].op = "lock"
    /\ ret[1].res = "LockWaitTimeout"
    /\ ret[1].before.by_key[arg[1].key] \notin {NoConn, arg[1].owner}
    /\ locks.by_owner[arg[1].owner] # {}

\* --------------------------------------------------------------- C31
\* The key after the last call of the history ret, and after its call i.
CounterAfter(i) == IF i = Len(ret) THEN auto_inc ELSE ret[i + 1].before

\* C31: allocate_auto_increment on a counter whose value is cur (1 when the
\* key is absent) stores cur + 1, saturated at i64::MAX, and returns cur, for
\* every cur from 1 to i64::MAX; bump_auto_increment_next(n) leaves the
\* counter at max(cur, n) and never lowers it.
C31_AllocateReturnsCur ==
    \A i \in DOMAIN ret :
        LET cur == AutoIncCur(ret[i].before)
            after == AutoIncCur(CounterAfter(i))
        IN IF ret[i].ai_op = "allocate"
           THEN /\ after = (IF cur < I64_MAX THEN cur + 1 ELSE I64_MAX)
                /\ ret[i].ok
                /\ ret[i].allocated = cur
           ELSE /\ after = (IF cur >= ret[i].next THEN cur ELSE ret[i].next)
                /\ after >= cur

\* The same with the allocation at cur = i64::MAX left out.
C31_BelowMax ==
    \A i \in DOMAIN ret :
        LET cur == AutoIncCur(ret[i].before)
            after == AutoIncCur(CounterAfter(i))
        IN IF ret[i].ai_op = "allocate"
           THEN /\ after = (IF cur < I64_MAX THEN cur + 1 ELSE I64_MAX)
                /\ ret[i].ok
                /\ cur < I64_MAX => ret[i].allocated = cur
           ELSE /\ after = (IF cur >= ret[i].next THEN cur ELSE ret[i].next)
                /\ after >= cur

\* --------------------------------------------------------------- C32
\* C32: for every view, scan_rows_mvcc returns the pair (pk, row) exactly when
\* get_row_mvcc(pk) returns Some(row), with at most one pair for a pk; a pk
\* whose first visible version is a tombstone is not returned, whatever its
\* older versions are.
C32_ScanAgreesWithGet ==
    \A view \in ReadViews :
        LET out == ScanRowsVec(data, view)
        IN \A pk \in PKs :
              LET got == GetRowMvcc(data, pk, view)
                  at == {i \in DOMAIN out : out[i][1] = pk}
              IN /\ Cardinality(at) <= 1
                 /\ \A i \in at : got # NoneRow /\ out[i][2] = got
                 /\ got # NoneRow => at # {}

\* The view of Store::get_row and Store::scan_rows sees a tombstone of a pk
\* above an older version of the pk that is a row, and a row of the other pk.
C32_Witness ==
    \E pk \in PKs :
        /\ GetRowMvcc(data, pk, LegacyView) = NoneRow
        /\ \E inv \in InvKeys : data[pk][inv] \notin {Missing, NoneRow}
        /\ ScanRowsVec(data, LegacyView) # <<>>

\* --------------------------------------------------------------- C33
\* C33: for a session with an open transaction and every pk, txn_get_row
\* returns Some(r) exactly when txn_scan_rows holds (pk, r); a pending
\* Some(row) is what both return, a pending None hides the row from both, and
\* a pk with no pending entry is read from the store under the session's view.
C33_OverlayReadsAgree ==
    \A c \in Conns : tx_id[c] # NoTx =>
        LET p == pending_rows[c]
            scan == TxnScanRows(data, p, read_view[c])
        IN \A pk \in PKs :
              LET got == TxnGetRow(data, p, read_view[c], pk)
              IN /\ (got # NoneRow) <=> (scan[pk] # Missing)
                 /\ got # NoneRow => scan[pk] = got
                 /\ p[pk] \notin {Missing, NoneRow} => got = p[pk]
                 /\ p[pk] = NoneRow => got = NoneRow
                 /\ p[pk] = Missing => got = GetRowMvcc(data, pk, read_view[c])

\* A session has a pending delete of a row its view sees in the store and a
\* pending row for the other pk.
C33_Witness ==
    \E c \in Conns : \E pk, q \in PKs :
        /\ tx_id[c] # NoTx
        /\ pending_rows[c][pk] = NoneRow
        /\ GetRowMvcc(data, pk, read_view[c]) # NoneRow
        /\ pending_rows[c][q] \notin {Missing, NoneRow}

\* --------------------------------------------------------------- C34
\* C34: a session with pending writes has a tx id, that id is in the active
\* set, and the session holds the row lock of every key of its pending buffer
\* and of every savepoint snapshot.
C34_PendingIsLocked ==
    \A c \in Conns :
        /\ PendingKeys(pending_rows[c]) # {} => (tx_id[c] # NoTx /\ tx_id[c] \in active_txns)
        /\ \A pk \in PendingKeys(pending_rows[c]) : locks.by_key[pk] = c
        /\ \A i \in DOMAIN savepoints[c] :
              \A pk \in PendingKeys(savepoints[c][i].pending) : locks.by_key[pk] = c

\* A session holds a savepoint whose snapshot has a key that is no longer in
\* its pending buffer, and the other session's last statement failed.
C34_Witness ==
    \E c \in Conns : \E i \in DOMAIN savepoints[c] :
        /\ PendingKeys(pending_rows[c]) # {}
        /\ PendingKeys(savepoints[c][i].pending) # {}
        /\ pending_rows[c] # savepoints[c][i].pending
        /\ lastErr.res = "LockWaitTimeout"

\* --------------------------------------------------------------- C35
\* C35: a session that is between statements with autocommit on and no open
\* transaction has no tx id and no read view and holds no row lock, whatever
\* its last statement was, so that its next statement takes its snapshot at
\* its own start.
C35_IdleHasNoTxn ==
    \A c \in Conns :
        (pc[c] = "idle" /\ autocommit[c] /\ ~in_txn[c]) =>
            /\ tx_id[c] = NoTx
            /\ read_view[c] = NoView
            /\ locks.by_owner[c] = {}
            /\ \A pk \in PKs : locks.by_key[pk] # c

\* --------------------------------------------------------------- C36
\* C36: a statement that ends the transaction of a session which is inside
\* BEGIN ... (COMMIT, ROLLBACK, or the implicit commit of a DDL statement)
\* leaves the session outside a transaction, so that with autocommit on its
\* next DML statement is not buffered and is committed when it returns.
C36_ImplicitCommitEndsTxn ==
    [][\A c \in Conns :
          (pc[c] = "idle" /\ in_txn[c] /\ tx_id[c] # NoTx
              /\ pc'[c] = "idle" /\ tx_id'[c] = NoTx) =>
                /\ ~in_txn'[c]
                /\ autocommit'[c] => ~ShouldBufferWrites(c)']_vars

\* The same for the statements COMMIT and ROLLBACK alone: the step leaves
\* the catalog as it was.
C36_ExplicitEndsTxn ==
    [][\A c \in Conns :
          (pc[c] = "idle" /\ in_txn[c] /\ tx_id[c] # NoTx
              /\ pc'[c] = "idle" /\ tx_id'[c] = NoTx /\ tables' = tables
              /\ lastErr' = NoError) =>
                ~in_txn'[c]]_vars

\* --------------------------------------------------------------- C37
\* C37: when the commit of a transaction fails because a table of its pending
\* writes has been dropped, no row of the dropped table is stored and every
\* session with pending writes keeps its tx id, read view, pending writes,
\* savepoints and row locks, and its tx id stays in the active set.
C37_FailedCommitKeepsTxn ==
    [][/\ tdef' = NoTableDef => data' = NoRows
       /\ (tdef = NoTableDef /\ lastErr' = [res |-> "Invalid", at |-> 0]) =>
             /\ data' = data
             /\ \A c \in Conns :
                   PendingKeys(pending_rows[c]) # {} =>
                       /\ tx_id'[c] = tx_id[c]
                       /\ tx_id[c] \in active_txns'
                       /\ read_view'[c] = read_view[c]
                       /\ pending_rows'[c] = pending_rows[c]
                       /\ savepoints'[c] = savepoints[c]
                       /\ \A pk \in PKs : locks.by_key[pk] = c => locks'.by_key[pk] = c]_vars

\* A commit has just failed (every session is inside BEGIN, so the error is
\* not that of a SAVEPOINT outside a transaction) and a session has pending
\* rows of the dropped table, a savepoint and row locks.
C37_Witness ==
    /\ tdef = NoTableDef
    /\ lastErr = [res |-> "Invalid", at |-> 0]
    /\ \A o \in Conns : in_txn[o]
    /\ \E c \in Conns :
          /\ PendingKeys(pending_rows[c]) # {}
          /\ savepoints[c] # <<>>
          /\ tx_id[c] \in active_txns
          /\ \A pk \in PendingKeys(pending_rows[c]) : locks.by_key[pk] = c

\* --------------------------------------------------------------- C38
\* The step is ROLLBACK TO SAVEPOINT or RELEASE SAVEPOINT of conn c.
SavepointStmt(c) ==
    \E n \in SpNames : RollbackToSavepoint(c, n) \/ ReleaseSavepoint(c, n)

\* C38: ROLLBACK TO SAVEPOINT and RELEASE SAVEPOINT of a session change
\* nothing but its pending buffer and its savepoint stack: the tx id, the read
\* view, the active set, the store and the row locks stay as they are, so a
\* row locked after the savepoint stays locked.
C38_SavepointKeepsLocks ==
    [][\A c \in Conns :
          (pc[c] = "idle" /\ in_txn[c] /\ savepoints[c] # <<>> /\ SavepointStmt(c)) =>
              /\ tx_id' = tx_id
              /\ read_view' = read_view
              /\ active_txns' = active_txns
              /\ data' = data
              /\ locks' = locks
              /\ \A o \in Conns \ {c} :
                    pending_rows'[o] = pending_rows[o] /\ savepoints'[o] = savepoints[o]]_vars

\* After a ROLLBACK TO SAVEPOINT a session holds the lock of a row that is no
\* longer in its pending buffer.
C38_Witness ==
    \E c \in Conns : \E pk \in PKs :
        /\ in_txn[c]
        /\ savepoints[c] # <<>>
        /\ locks.by_key[pk] = c
        /\ pending_rows[c][pk] = Missing

\* --------------------------------------------------------------- C39
\* C39: every tx id of the active set is the tx id of the open transaction of
\* a live session (a system transaction starts and ends inside one handler
\* step); the id of a session that has committed, rolled back or disconnected
\* is not in the set.
C39_ActiveSetIsLive ==
    \A t \in active_txns : \E c \in Conns : tx_id[c] = t

\* --------------------------------------------------------------- C40
\* C40: a DML statement writes rows of a table of database db only when its
\* user holds the privilege of the statement globally or on db, whatever the
\* current database is and however the statement names the table.
C40_DmlNeedsPrivOnTarget ==
    (ret # NoCall /\ "needed" \in DOMAIN ret[1] /\ ret[1].out.res = "Ok") =>
        \/ ret[1].needed \in arg[1].user.global_privs
        \/ ret[1].needed \in arg[1].user.db_privs[ret[1].out.db]

\* The same for the statements that name the table without a database.
C40_UnqualifiedNeedsPriv ==
    (ret # NoCall /\ "needed" \in DOMAIN ret[1] /\ ret[1].out.res = "Ok"
        /\ ret[1].db_opt = NoDb) =>
        \/ ret[1].needed \in arg[1].user.global_privs
        \/ ret[1].needed \in arg[1].user.db_privs[ret[1].out.db]

====
